---- MODULE Spec2Model ----
(***************************************************************************)
(* Realtime Note API: the note store, the WebSocket edit sessions, the     *)
(* REST note routes and the per-organization vector index, as a state      *)
(* machine.  Every handler is cut at the points where it talks to the      *)
(* database: a query and the later commit of the same handler are two      *)
(* steps, between which handlers of other processes (and, for the async    *)
(* REST routes, of the same process) may run.                              *)
(***************************************************************************)
EXTENDS Integers, Sequences, FiniteSets, TLC

\* ------------------------------------------------------------------ bounds

\* Handlers stop taking requests once a note has reached this version.
MaxVersion == 2
\* Number of frames one WebSocket client sends during its session.
MaxSends == 1
\* REST handlers stop taking PATCH requests once this many patch commits
\* have been made.
MaxCommits == 3
\* PATCH requests taken in the tenant specification.
MaxTenantPatches == 1
\* Largest top_k a search request asks for.
MaxTopK == 1

\* ------------------------------------------------------------- value sets

Tenants == {"T1", "T2"}
NoteIds == {"n1", "n2"}
Procs == {"P1", "P2"}
Sessions == {"s1", "s2"}

\* A key that a JSON object does not carry.
Absent == "absent"
\* A note_id / session slot that holds nothing.
None == "none"

\* api_key table (ApiKey rows): the organization each stored key belongs to.
ApiKeyOrg == [k \in {"k1", "k2"} |-> IF k = "k1" THEN "T1" ELSE "T2"]
\* What a client may present as api_key: a stored key, an unknown string, or
\* nothing at all ("").
Credentials == {"k1", "k2", "bogus", ""}

Requests == {"r1", "r2", "r3"}

\* The request slots of the two callers that edit and search.
Callers == {"r1", "r2"}

VARIABLES
    orgs,           \* org table: the org_id of every Organization row
    notes,          \* note table: [note_id -> row], rows are never removed
    ws,             \* WebSocket handler of each session (locals and position)
    frames,         \* frames each session's client has been sent, in order
    inflight,       \* the frame a client has sent and the handler has not received
    rest,           \* REST handler of each request slot (locals, position, response)
    index_registry, \* per process: org_id -> NoteVectorIndex (or NoIndex)
    snapshots,      \* index_<org_id>.pkl files under INDEX_DIR (or NoIndex)
    active_connections, \* per process: manager.active_connections[note_id]
    commit_log,     \* the UPDATEs the patch handlers committed, in commit order
    clock,          \* the wall clock in seconds, int(time.time()) of every process
    redis,          \* the rate limit hashes of the Redis server, by key
    limiter,        \* calls of RateLimiter.check_rate_limit (locals and position)
    quota_hist,     \* what the calls of check_rate_limit were granted so far
    gate,           \* the last call each caller made to an authentication gate
    threads,        \* threads that call one NoteVectorIndex (locals and position)
    index_lock,     \* the thread that holds the lock of that index
    added,          \* per note id, the vector of the last add_note that was let in
    active_keys,    \* per process: the keys of manager.active_connections
    connection_details, \* per process: the keys of manager.connection_details
    pubsub          \* per session: the task _subscribe_to_note and its channel

vars == <<orgs, notes, ws, frames, inflight, rest, index_registry, snapshots,
          active_connections, commit_log, clock, redis, limiter, quota_hist,
          gate, threads, index_lock, added, active_keys, connection_details,
          pubsub>>

wsVars == <<ws, frames, inflight, active_connections>>
indexVars == <<index_registry, snapshots>>
threadVars == <<threads, index_lock, added>>
managerVars == <<active_keys, connection_details, pubsub>>
quotaVars == <<clock, redis, limiter, quota_hist>>

\* ------------------------------------------------------------- note table

Note(org, title, content_md, version, deleted) ==
    [org_id |-> org, title |-> title, content_md |-> content_md,
     version |-> version, deleted |-> deleted]

\* db.query(Note).filter(Note.note_id == note_id, Note.deleted == False).first()
LiveNote(n) == n \in DOMAIN notes /\ ~notes[n].deleted

\* ----------------------------------------------------------------- frames

Frame(type, code, version, title, content_md) ==
    [type |-> type, code |-> code, version |-> version,
     title |-> title, content_md |-> content_md]

InitFrame(row) == Frame("init", "-", row.version, row.title, row.content_md)
UpdateFrame(row) == Frame("update", "-", row.version, row.title, row.content_md)
ErrorFrame(code, current_version) == Frame("error", code, current_version, "-", "-")

\* ------------------------------------------------------ client patch data

\* The "patch" member of a client frame: a base64 text.  kind "json" is the
\* base64 of a JSON object with optional title and content_md; "garbage" is
\* text that base64/JSON decoding rejects; "missing" is an absent member.
PatchData(kind, title, content_md) ==
    [kind |-> kind, title |-> title, content_md |-> content_md]

NoPatch == PatchData("missing", Absent, Absent)
GarbagePatch == PatchData("garbage", Absent, Absent)

ClientPatches ==
    {NoPatch, GarbagePatch,
     PatchData("json", "b", Absent),
     PatchData("json", Absent, "b"),
     PatchData("json", "a", "a")}

NoMsg == [type |-> "none", version |-> 0, patch |-> NoPatch]
PatchMsg(version, patch) == [type |-> "patch", version |-> version, patch |-> patch]

\* json.loads(base64.b64decode(patch_b64).decode()): the object, or a raise.
DecodeOk(p) == p.kind = "json"

\* "title" in patch_content / "content_md" in patch_content, then assignment.
ApplyPatch(row, p) ==
    [row EXCEPT !.title = IF p.title # Absent THEN p.title ELSE @,
                !.content_md = IF p.content_md # Absent THEN p.content_md ELSE @]

\* The UPDATE a commit emits for an object loaded as `loaded` and modified to
\* `modified`: only the columns whose value changed are written, by note_id.
FlushRow(stored, loaded, modified) ==
    [stored EXCEPT
        !.title = IF modified.title # loaded.title THEN modified.title ELSE @,
        !.content_md = IF modified.content_md # loaded.content_md
                       THEN modified.content_md ELSE @,
        !.version = IF modified.version # loaded.version THEN modified.version ELSE @,
        !.deleted = IF modified.deleted # loaded.deleted THEN modified.deleted ELSE @]

\* One entry of commit_log: the surface and handler that committed, the note,
\* the version its request carried (0 when the surface carries none), the
\* stored version before and after the UPDATE, and the sessions that were
\* open on the note when it was applied.
Committed(surface, by, n, expected, old, new) ==
    [surface |-> surface, by |-> by, note_id |-> n, expected |-> expected,
     before |-> old.version, after |-> new.version,
     open |-> {t \in Sessions : ws[t].state = "Active" /\ ws[t].note_id = n}]

\* --------------------------------------------------------------- sessions

NoRow == Note(None, "-", "-", 0, FALSE)

\* A WebSocket connection: the handler that serves it ("simple" for
\* simple_websocket_handler, "managed" for handle_websocket_connection), the
\* handler's position and the locals of the patch it is working on.
IdleSession ==
    [state |-> "Idle", handler |-> None, proc |-> None, note_id |-> None,
     api_key |-> "", close_code |-> 0, pc |-> "recv", sent |-> 0,
     expected |-> 0, patch |-> NoPatch, loaded |-> NoRow, modified |-> NoRow,
     reading |-> TRUE]

\* A handler of process p is inside its synchronous database section (between
\* its query and the frames that follow its commit): the event loop of p runs
\* nothing else until it leaves it.
ProcBusy(p) ==
    \E s \in Sessions : ws[s].proc = p /\ ws[s].state = "Active" /\ ws[s].pc # "recv"

Opened(s, handler, p, n, k, state, close_code) ==
    [ws EXCEPT ![s] = [@ EXCEPT !.state = state, !.handler = handler, !.proc = p,
                                !.note_id = n, !.api_key = k,
                                !.close_code = close_code]]

SendTo(targets, f) ==
    [t \in Sessions |-> IF t \in targets THEN Append(frames[t], f) ELSE frames[t]]

api_key_accepted_mutant(api_key) == TRUE

\* `if not api_key`: the only test either handler makes of the credential.
api_key_accepted(api_key) == api_key # ""

\* The client writes one frame to its open socket.
ClientSend(s, m) ==
    /\ ws[s].state = "Active"
    /\ inflight[s] = NoMsg
    /\ inflight' = [inflight EXCEPT ![s] = m]
    /\ ws' = [ws EXCEPT ![s].sent = @ + 1]
    /\ UNCHANGED <<managerVars, threadVars, gate, quotaVars, orgs, notes, frames, rest, indexVars, active_connections, commit_log>>

\* The task _subscribe_to_note of a connection and its Redis subscription:
\* "none" before asyncio.create_task, "created" until the task first runs,
\* "listening" inside `for message in pubsub.listen()`, "unsubscribed"
\* after the finally clause; `pending` holds the messages Redis has
\* delivered to the subscription and listen() has not yet returned;
\* `delivered` counts them; `disconnects` counts the calls of
\* manager.disconnect for the connection.
NoPubSub == [task |-> "none", pending |-> <<>>, delivered |-> 0, disconnects |-> 0]

\* manager.disconnect(websocket) in process p.
disconnect(p, s) ==
    [active_connections EXCEPT ![p] =
        [n \in NoteIds |-> SelectSeq(@[n], LAMBDA t : t # s)]]

\* manager.disconnect: `if not self.active_connections[note_id]: del ...`,
\* the keys of active_connections afterwards.
disconnect_keys(p, s) ==
    [active_keys EXCEPT ![p] =
        IF s \notin connection_details[p] THEN @
        ELSE IF ws[s].note_id \in @ /\ disconnect(p, s)[p][ws[s].note_id] = <<>>
        THEN @ \ {ws[s].note_id}
        ELSE @]

\* manager.disconnect: `del self.connection_details[websocket]`.
disconnect_details(p, s) == [connection_details EXCEPT ![p] = @ \ {s}]

\* The client closes its socket: receive_json raises WebSocketDisconnect, the
\* loop ends, and the managed handler's finally clause runs manager.disconnect.
ClientClose(s) ==
    /\ ws[s].state = "Active"
    /\ ws[s].handler \in {"simple", "managed"}
    /\ ws[s].pc = "recv"
    /\ inflight[s] = NoMsg
    /\ ~ProcBusy(ws[s].proc)
    /\ ws' = [ws EXCEPT ![s].state = "Closed"]
    /\ active_connections' = IF ws[s].handler = "managed"
                             THEN disconnect(ws[s].proc, s)
                             ELSE active_connections
    /\ active_keys' = IF ws[s].handler = "managed"
                      THEN disconnect_keys(ws[s].proc, s)
                      ELSE active_keys
    /\ connection_details' = IF ws[s].handler = "managed"
                             THEN disconnect_details(ws[s].proc, s)
                             ELSE connection_details
    /\ pubsub' = IF ws[s].handler = "managed"
                 THEN [pubsub EXCEPT ![s].disconnects = @ + 1]
                 ELSE pubsub
    /\ UNCHANGED <<threadVars, gate, quotaVars, orgs, notes, frames, inflight, rest, indexVars, commit_log>>

version_mismatch_mutant(version, row) == version > row.version
version_mismatch_mutant_equal(version, row) == version >= row.version

\* `if version != note.version` / `if patch_data.version != note.version`
version_mismatch(version, row) == version # row.version

\* The frame that answers a stale patch.
mismatch_frame(row) == ErrorFrame("VERSION_MISMATCH", row.version)

\* The sessions that are sent the frame answering session s's stale patch.
mismatch_recipients(s) == {s}

\* db.commit() of a patch handler: the UPDATE of the changed columns.
PatchCommit(s, surface) ==
    LET n == ws[s].note_id IN
    /\ ws[s].state = "Active"
    /\ ws[s].pc = "commit"
    /\ notes' = [notes EXCEPT ![n] = FlushRow(@, ws[s].loaded, ws[s].modified)]
    /\ commit_log' = Append(commit_log,
            Committed(surface, s, n, ws[s].expected, notes[n],
                      FlushRow(notes[n], ws[s].loaded, ws[s].modified)))
    /\ ws' = [ws EXCEPT ![s].pc = "refresh"]
    /\ UNCHANGED <<managerVars, threadVars, gate, quotaVars, orgs, frames, inflight, rest, indexVars, active_connections>>

\* The handler has passed the version check: the loaded note is modified and
\* the handler stands before its commit.
Modify(s, version, patch, row, changed) ==
    [ws EXCEPT ![s] = [@ EXCEPT !.pc = "commit", !.expected = version,
                                !.patch = patch,
                                !.loaded = row,
                                !.modified = [changed EXCEPT !.version = row.version + 1]]]

\* The update frame is built after the commit expired the note: its members
\* are read from the row as it is stored now.
PatchUpdate(s, recipients) ==
    /\ ws[s].state = "Active"
    /\ ws[s].pc = "refresh"
    /\ frames' = SendTo(recipients, UpdateFrame(notes[ws[s].note_id]))
    /\ ws' = [ws EXCEPT ![s] = [@ EXCEPT !.pc = "recv", !.patch = NoPatch,
                                         !.loaded = NoRow, !.modified = NoRow]]
    /\ UNCHANGED <<managerVars, threadVars, gate, quotaVars, orgs, notes, inflight, rest, indexVars, active_connections, commit_log>>

\* ---------------------------------------------- simple_websocket_handler

\* accept, the api_key test, the first query and the init frame.
simple_websocket_handler_connect(s, p, n, k) ==
    /\ ws[s].state = "Idle"
    /\ ~ProcBusy(p)
    /\ UNCHANGED <<managerVars, threadVars, gate, quotaVars, orgs, notes, inflight, rest, indexVars, active_connections, commit_log>>
    /\ IF ~api_key_accepted(k)
       THEN /\ ws' = Opened(s, "simple", p, n, k, "Closed", 1008)
            /\ UNCHANGED frames
       ELSE IF ~LiveNote(n)
       THEN /\ ws' = Opened(s, "simple", p, n, k, "Closed", 1404)
            /\ UNCHANGED frames
       ELSE /\ ws' = Opened(s, "simple", p, n, k, "Active", 0)
            /\ frames' = [frames EXCEPT ![s] = Append(@, InitFrame(notes[n]))]

\* The sessions that are sent the update frame of a commit made by session s.
update_recipients(s) == {s}

\* receive_json up to the point where the handler either answers with an
\* error frame (and loops) or has modified the loaded note and is about to
\* commit.
simple_websocket_handler_receive(s) ==
    LET m == inflight[s]
        n == ws[s].note_id
    IN
    /\ ws[s].state = "Active" /\ ws[s].handler = "simple"
    /\ ws[s].pc = "recv"
    /\ m # NoMsg
    /\ ~ProcBusy(ws[s].proc)
    /\ inflight' = [inflight EXCEPT ![s] = NoMsg]
    /\ UNCHANGED <<managerVars, threadVars, gate, quotaVars, orgs, notes, rest, indexVars, active_connections, commit_log>>
    /\ IF m.type # "patch"
       THEN UNCHANGED <<ws, frames>>
       ELSE IF m.patch.kind = "missing"
       THEN /\ frames' = SendTo({s}, ErrorFrame("INVALID_PATCH", 0))
            /\ UNCHANGED ws
       ELSE IF ~DecodeOk(m.patch)
       THEN /\ frames' = SendTo({s}, ErrorFrame("PATCH_ERROR", 0))
            /\ UNCHANGED ws
       ELSE IF ~LiveNote(n)
       THEN /\ frames' = SendTo({s}, ErrorFrame("NOTE_NOT_FOUND", 0))
            /\ UNCHANGED ws
       ELSE IF version_mismatch(m.version, notes[n])
       THEN /\ frames' = SendTo(mismatch_recipients(s), mismatch_frame(notes[n]))
            /\ UNCHANGED ws
       ELSE /\ ws' = Modify(s, m.version, m.patch, notes[n], ApplyPatch(notes[n], m.patch))
            /\ UNCHANGED frames

simple_websocket_handler_commit(s) ==
    ws[s].handler = "simple" /\ PatchCommit(s, "ws")

simple_websocket_handler_update(s) ==
    ws[s].handler = "simple" /\ PatchUpdate(s, update_recipients(s))

\* ------------------------------------------- handle_websocket_connection

\* accept, the api_key test, get_note_if_exists_sync, the registration with
\* the manager and the init frame.  A missing note raises HTTPException(404):
\* an error frame, close(404), and manager.disconnect in the finally clause.
handle_websocket_connection_connect(s, p, n, k) ==
    /\ ws[s].state = "Idle"
    /\ ~ProcBusy(p)
    /\ UNCHANGED <<threadVars, gate, quotaVars, orgs, notes, inflight, rest, indexVars, commit_log>>
    /\ pubsub' = IF api_key_accepted(k) /\ LiveNote(n) THEN pubsub
                 ELSE [pubsub EXCEPT ![s].disconnects = @ + 1]
    /\ IF ~api_key_accepted(k)
       THEN /\ ws' = Opened(s, "managed", p, n, k, "Closed", 1008)
            /\ UNCHANGED <<frames, active_connections, active_keys, connection_details>>
       ELSE IF ~LiveNote(n)
       THEN /\ ws' = Opened(s, "managed", p, n, k, "Closed", 404)
            /\ frames' = [frames EXCEPT ![s] = Append(@, ErrorFrame("404", 0))]
            /\ UNCHANGED <<active_connections, active_keys, connection_details>>
       ELSE /\ ws' = Opened(s, "managed", p, n, k, "Active", 0)
            /\ active_connections' = [active_connections EXCEPT ![p][n] = Append(@, s)]
            /\ active_keys' = [active_keys EXCEPT ![p] = @ \cup {n}]
            /\ connection_details' = [connection_details EXCEPT ![p] = @ \cup {s}]
            /\ frames' = [frames EXCEPT ![s] = Append(@, InitFrame(notes[n]))]

\* manager.apply_patch: the merge of the decoded patch, or the content as it
\* was when the text cannot be decoded.
manager_apply_patch(row, p) == IF DecodeOk(p) THEN ApplyPatch(row, p) ELSE row

\* The sessions sent the update frame of session s's commit: those the
\* manager of s's process lists for the note, except s itself.
managed_update_recipients(s) ==
    {active_connections[ws[s].proc][ws[s].note_id][i] :
        i \in 1..Len(active_connections[ws[s].proc][ws[s].note_id])} \ {s}

\* receive_json, WebSocketPatch(**data), get_note_if_exists_sync, the version
\* check and the changes to the loaded note.
handle_websocket_connection_receive(s) ==
    LET m == inflight[s]
        n == ws[s].note_id
    IN
    /\ ws[s].state = "Active" /\ ws[s].handler = "managed"
    /\ ws[s].pc = "recv"
    /\ m # NoMsg
    /\ ~ProcBusy(ws[s].proc)
    /\ inflight' = [inflight EXCEPT ![s] = NoMsg]
    /\ UNCHANGED <<managerVars, threadVars, gate, quotaVars, orgs, notes, rest, indexVars, active_connections, commit_log>>
    /\ IF m.type # "patch"
       THEN UNCHANGED <<ws, frames>>
       ELSE IF m.patch.kind = "missing" \/ ~LiveNote(n)
       THEN /\ frames' = SendTo({s}, ErrorFrame("PATCH_ERROR", 0))
            /\ UNCHANGED ws
       ELSE IF version_mismatch(m.version, notes[n])
       THEN /\ frames' = SendTo(mismatch_recipients(s), mismatch_frame(notes[n]))
            /\ UNCHANGED ws
       ELSE /\ ws' = Modify(s, m.version, m.patch, notes[n],
                            manager_apply_patch(notes[n], m.patch))
            /\ UNCHANGED frames

handle_websocket_connection_commit(s) ==
    ws[s].handler = "managed" /\ PatchCommit(s, "ws")

\* `await client_ws.send_json(update_message)` returns once the frame is
\* written to the socket of t; while the client of t does not read and its
\* buffers are full, the call stays suspended.
send_json_returns(t) == ws[t].reading

\* The client of session s stops reading its socket (a slow consumer).
ClientStall(s) ==
    /\ ws[s].state = "Active"
    /\ ws[s].reading
    /\ ws' = [ws EXCEPT ![s].reading = FALSE]
    /\ UNCHANGED <<managerVars, threadVars, gate, quotaVars, orgs, notes, frames, inflight,
                   rest, indexVars, active_connections, commit_log>>

\* The loop over manager.active_connections[note_id] awaits one send_json
\* after the other.
handle_websocket_connection_update(s) ==
    /\ ws[s].handler = "managed"
    /\ \A t \in managed_update_recipients(s) : send_json_returns(t)
    /\ PatchUpdate(s, managed_update_recipients(s))

\* ------------------------------------------------------------ vector index

\* Embeddings have two components, in hundredths.

\* f"{note.title}\\n\\n{note.content_md}": the text a note is embedded from.
NoteText(title, content_md) == <<title, content_md>>

\* text_to_embedding: a unit vector that depends on the text alone.
text_to_embedding(text) ==
    IF text = <<"a", "a">> THEN <<100, 0>>
    ELSE IF text = <<"b", "b">> THEN <<0, 100>>
    ELSE <<71, 71>>

\* NoteVectorIndex._normalize_embedding: v / |v|, and v itself when |v| = 0.
_normalize_embedding(v) ==
    IF v[1] = 0 /\ v[2] = 0 THEN v
    ELSE IF v[2] = 0 THEN <<(IF v[1] > 0 THEN 100 ELSE -100), 0>>
    ELSE IF v[1] = 0 THEN <<0, (IF v[2] > 0 THEN 100 ELSE -100)>>
    ELSE IF v[1] = v[2] THEN (IF v[1] > 0 THEN <<71, 71>> ELSE <<-71, -71>>)
    ELSE IF v[1] = -v[2] THEN (IF v[1] > 0 THEN <<71, -71>> ELSE <<-71, 71>>)
    ELSE v

NoIndex == [loaded |-> FALSE, note_ids |-> <<>>, embeddings |-> <<>>]
EmptyIndex == [loaded |-> TRUE, note_ids |-> <<>>, embeddings |-> <<>>]

\* Position of note_id in a note_ids list (list.index), 0 when absent.
IndexOf(ids, n) ==
    IF \E i \in 1..Len(ids) : ids[i] = n
    THEN CHOOSE i \in 1..Len(ids) : ids[i] = n /\ \A j \in 1..(i - 1) : ids[j] # n
    ELSE 0

RemoveAt(seq, i) == SubSeq(seq, 1, i - 1) \o SubSeq(seq, i + 1, Len(seq))

\* NoteVectorIndex._remove_at_index
_remove_at_index(idx, i) ==
    [idx EXCEPT !.note_ids = RemoveAt(@, i),
                !.embeddings = IF Len(@) >= i THEN RemoveAt(@, i) ELSE @]

\* NoteVectorIndex.add_note (the index after it; the caller saves it)
add_note(idx, n, embedding) ==
    LET i == IndexOf(idx.note_ids, n)
        cleared == IF i # 0 THEN _remove_at_index(idx, i) ELSE idx
    IN [cleared EXCEPT !.note_ids = Append(@, n),
                       !.embeddings = Append(@, _normalize_embedding(embedding))]

\* NoteVectorIndex.remove_note
remove_note(idx, n) ==
    LET i == IndexOf(idx.note_ids, n)
    IN IF i # 0 THEN _remove_at_index(idx, i) ELSE idx

\* get_index_for_org within process p: the registered index, or a new one
\* that _load_index fills from the organization's snapshot file.
get_index_for_org(p, org) ==
    IF index_registry[p][org].loaded THEN index_registry[p][org]
    ELSE IF snapshots[org].loaded THEN snapshots[org]
    ELSE EmptyIndex

index_org_mutant(row) == "T1"

\* The organization whose index a note is filed under.
index_org(row) == row.org_id

\* index_note(note) in process p: registry and snapshot afterwards.
index_note_registry(p, n, row) ==
    [index_registry EXCEPT ![p][index_org(row)] =
        add_note(get_index_for_org(p, index_org(row)), n,
                 text_to_embedding(NoteText(row.title, row.content_md)))]

index_note(p, n, row) ==
    /\ index_registry' = index_note_registry(p, n, row)
    /\ snapshots' = [snapshots EXCEPT ![index_org(row)] =
                        index_note_registry(p, n, row)[p][index_org(row)]]

\* remove_note_from_index(note) in process p.  remove_note saves the index
\* only when it removed something; the registry keeps the index either way.
remove_note_from_index(p, n, row) ==
    LET before == get_index_for_org(p, row.org_id)
        after == remove_note(before, n)
    IN /\ index_registry' = [index_registry EXCEPT ![p][row.org_id] = after]
       /\ snapshots' = IF IndexOf(before.note_ids, n) # 0
                       THEN [snapshots EXCEPT ![row.org_id] = after]
                       ELSE snapshots

Dot(u, v) == u[1] * v[1] + u[2] * v[2]

\* Insertion of position i into a list of positions kept in non-increasing
\* similarity: after every entry that is at least as similar (a stable sort).
RECURSIVE InsertBySimilarity(_, _, _)
InsertBySimilarity(sorted, i, sim) ==
    IF sorted = <<>> THEN <<i>>
    ELSE IF sim[Head(sorted)] >= sim[i]
         THEN <<Head(sorted)>> \o InsertBySimilarity(Tail(sorted), i, sim)
         ELSE <<i>> \o sorted

RECURSIVE SortedPositions(_, _)
SortedPositions(m, sim) ==
    IF m = 0 THEN <<>>
    ELSE InsertBySimilarity(SortedPositions(m - 1, sim), m, sim)

\* NoteVectorIndex.search without FAISS: dot products, sorted descending,
\* the first top_k.  The result is the list of (note_id, similarity).
index_search(idx, query_embedding, top_k) ==
    LET q == _normalize_embedding(query_embedding)
        m == IF Len(idx.embeddings) < Len(idx.note_ids)
             THEN Len(idx.embeddings) ELSE Len(idx.note_ids)
        sim == [i \in 1..m |-> Dot(q, idx.embeddings[i])]
        order == SortedPositions(m, sim)
        kept == IF top_k < m THEN top_k ELSE m
    IN IF Len(idx.note_ids) = 0 THEN <<>>
       ELSE [j \in 1..kept |->
                [note_id |-> idx.note_ids[order[j]], score |-> sim[order[j]]]]

\* ------------------------------------- threads on one NoteVectorIndex

\* The threads, and the index they share: the one process P1 registers for
\* T1.
Threads == {"t1", "t2"}
SharedIndex == index_registry["P1"]["T1"]

NoVector == <<>>

\* A thread outside the index, and one inside a method of it.
IdleThread ==
    [pc |-> "idle", op |-> "none", note_id |-> None, embedding |-> NoVector, idx |-> 0,
     top_k |-> 0, faiss |-> FALSE, results |-> <<>>]

lock_available_mutant(t) == TRUE

\* with self.lock: the RLock is free or held by the thread itself.
lock_available(t) == index_lock = None \/ index_lock = t

\* A thread calls add_note(note_id, embedding) or remove_note(note_id) and
\* enters `with self.lock`.
lock_acquire(t, op, n, embedding) ==
    /\ threads[t].pc = "idle"
    /\ lock_available(t)
    /\ index_lock' = t
    /\ threads' = [threads EXCEPT ![t] =
          [IdleThread EXCEPT !.pc = "check", !.op = op, !.note_id = n,
                             !.embedding = embedding]]
    /\ added' = [added EXCEPT ![n] = IF op = "add_note"
                                     THEN _normalize_embedding(embedding)
                                     ELSE NoVector]
    /\ index_registry' = [index_registry EXCEPT !["P1"]["T1"] = get_index_for_org("P1", "T1")]
    /\ UNCHANGED <<managerVars, gate, quotaVars, orgs, notes, wsVars, rest, snapshots, commit_log>>

\* if note_id in self.note_ids: idx = self.note_ids.index(note_id)
note_id_check(t) ==
    LET i == IndexOf(SharedIndex.note_ids, threads[t].note_id) IN
    /\ threads[t].pc = "check"
    /\ threads' = [threads EXCEPT ![t] =
          IF i # 0 THEN [@ EXCEPT !.pc = "del_note_ids", !.idx = i]
          ELSE IF threads[t].op = "add_note" THEN [@ EXCEPT !.pc = "append_note_ids"]
          ELSE [@ EXCEPT !.pc = "release"]]
    /\ UNCHANGED <<managerVars, gate, quotaVars, orgs, notes, wsVars, rest, indexVars, commit_log,
                   index_lock, added>>

\* _remove_at_index: del self.note_ids[idx]
del_note_ids(t) ==
    /\ threads[t].pc = "del_note_ids"
    /\ index_registry' = [index_registry EXCEPT !["P1"]["T1"].note_ids =
          IF Len(@) >= threads[t].idx THEN RemoveAt(@, threads[t].idx) ELSE @]
    /\ threads' = [threads EXCEPT ![t] =
          IF Len(SharedIndex.note_ids) >= threads[t].idx
          THEN [@ EXCEPT !.pc = "del_embeddings"]
          ELSE [@ EXCEPT !.pc = "release"]]
    /\ UNCHANGED <<managerVars, gate, quotaVars, orgs, notes, wsVars, rest, snapshots, commit_log,
                   index_lock, added>>

\* _remove_at_index: if len(self.embeddings) > idx: del self.embeddings[idx]
del_embeddings(t) ==
    /\ threads[t].pc = "del_embeddings"
    /\ index_registry' = [index_registry EXCEPT !["P1"]["T1"].embeddings =
          IF Len(@) >= threads[t].idx THEN RemoveAt(@, threads[t].idx) ELSE @]
    /\ threads' = [threads EXCEPT ![t].pc =
          IF threads[t].op = "add_note" THEN "append_note_ids" ELSE "save"]
    /\ UNCHANGED <<managerVars, gate, quotaVars, orgs, notes, wsVars, rest, snapshots, commit_log,
                   index_lock, added>>

\* add_note: self.note_ids.append(note_id)
append_note_ids(t) ==
    /\ threads[t].pc = "append_note_ids"
    /\ index_registry' = [index_registry EXCEPT !["P1"]["T1"].note_ids =
                              Append(@, threads[t].note_id)]
    /\ threads' = [threads EXCEPT ![t].pc = "append_embeddings"]
    /\ UNCHANGED <<managerVars, gate, quotaVars, orgs, notes, wsVars, rest, snapshots, commit_log,
                   index_lock, added>>

\* add_note: self.embeddings.append(embedding_normalized)
append_embeddings(t) ==
    /\ threads[t].pc = "append_embeddings"
    /\ index_registry' = [index_registry EXCEPT !["P1"]["T1"].embeddings =
                              Append(@, _normalize_embedding(threads[t].embedding))]
    /\ threads' = [threads EXCEPT ![t].pc = "save"]
    /\ UNCHANGED <<managerVars, gate, quotaVars, orgs, notes, wsVars, rest, snapshots, commit_log,
                   index_lock, added>>

_save_index_mutant(t) ==
    /\ threads[t].pc = "save"
    /\ threads' = [threads EXCEPT ![t].pc = "release"]
    /\ UNCHANGED <<managerVars, gate, quotaVars, orgs, notes, wsVars, rest, indexVars, commit_log,
                   index_lock, added>>

\* self._save_index()
_save_index(t) ==
    /\ threads[t].pc = "save"
    /\ snapshots' = [snapshots EXCEPT !["T1"] = SharedIndex]
    /\ threads' = [threads EXCEPT ![t].pc = "release"]
    /\ UNCHANGED <<managerVars, gate, quotaVars, orgs, notes, wsVars, rest, index_registry, commit_log,
                   index_lock, added>>

\* The thread leaves `with self.lock` and the method returns.
lock_release(t) ==
    /\ threads[t].pc = "release"
    /\ index_lock' = IF index_lock = t THEN None ELSE index_lock
    /\ threads' = [threads EXCEPT ![t] = IdleThread]
    /\ UNCHANGED <<managerVars, gate, quotaVars, orgs, notes, wsVars, rest, indexVars, commit_log, added>>

Min(a, b) == IF a <= b THEN a ELSE b

\* Squared L2 distance, as IndexFlatL2 reports it.
L2Squared(u, v) == (u[1] - v[1]) * (u[1] - v[1]) + (u[2] - v[2]) * (u[2] - v[2])

\* The orders in which IndexFlatL2.search can return the positions of m
\* vectors with the distances dist: nearest first, equal distances in the
\* order the library gives them.
NearestFirst(m, dist) ==
    {f \in [1..m -> 1..m] :
        /\ \A i, j \in 1..m : f[i] = f[j] => i = j
        /\ \A i \in 1..(m - 1) : dist[f[i]] <= dist[f[i + 1]]}

\* NoteVectorIndex.search with FAISS: the min(top_k, len(note_ids)) nearest
\* vectors, each with 1.0 - min(distance / 2.0, 1.0); the lists it can return.
faiss_search(idx, query_embedding, top_k) ==
    LET q == _normalize_embedding(query_embedding)
        m == Len(idx.embeddings)
        dist == [i \in 1..m |-> L2Squared(q, idx.embeddings[i])]
        kept == Min(Min(top_k, Len(idx.note_ids)), m)
    IN IF Len(idx.note_ids) = 0 THEN {<<>>}
       ELSE {[j \in 1..kept |->
                [note_id |-> idx.note_ids[f[j]],
                 score |-> 10000 - Min(dist[f[j]] \div 2, 10000)]]
             : f \in {g \in NearestFirst(m, dist) :
                         \A j \in 1..kept : g[j] <= Len(idx.note_ids)}}

\* NoteVectorIndex.search on either path.
search_outcomes(idx, query_embedding, top_k, faiss) ==
    IF faiss THEN faiss_search(idx, query_embedding, top_k)
    ELSE {index_search(idx, query_embedding, top_k)}

\* A thread calls search(query_embedding, top_k): the whole method runs
\* inside `with self.lock` and changes nothing.
NoteVectorIndex_search(t, query_embedding, top_k, faiss) ==
    /\ threads[t].pc = "idle"
    /\ lock_available(t)
    /\ \E results \in search_outcomes(get_index_for_org("P1", "T1"), query_embedding,
                                      top_k, faiss) :
          threads' = [threads EXCEPT ![t] =
             [IdleThread EXCEPT !.op = "search", !.embedding = query_embedding,
                                !.top_k = top_k, !.faiss = faiss, !.results = results]]
    /\ index_registry' = [index_registry EXCEPT !["P1"]["T1"] = get_index_for_org("P1", "T1")]
    /\ UNCHANGED <<managerVars, gate, quotaVars, orgs, notes, wsVars, rest, snapshots, commit_log,
                   index_lock, added>>

\* -------------------------------------------------------------- REST routes

\* The organization the api_key a request presents belongs to (None when the
\* key is not a stored one).  No note route reads it.
CredentialOrg(k) == IF k \in DOMAIN ApiKeyOrg THEN ApiKeyOrg[k] ELSE None

\* A header that carries an entity tag is the pair of the tag's prefix and
\* the text between its quotes; NoHeader is a request or response without it.
NoHeader == <<"none", 0>>

\* f'W/"{note.version}"'
ETag(version) == <<"W/", version>>

NoBody == [note_id |-> None, version |-> 0, title |-> "-", content_md |-> "-",
           listed |-> {}, results |-> <<>>, etag |-> NoHeader]

IdleRequest ==
    [op |-> "none", pc |-> "idle", proc |-> None, api_key |-> "", note_id |-> None,
     if_none_match |-> NoHeader,
     org_id |-> None, patch |-> NoPatch, loaded |-> NoRow, modified |-> NoRow,
     selected |-> <<>>,
     status |-> 0, body |-> NoBody]

\* A request slot takes a new request: the previous response is dropped.
Begin(r, op, p, k, n) ==
    [IdleRequest EXCEPT !.op = op, !.proc = p, !.api_key = k, !.note_id = n]

Respond(req, status, body) ==
    [req EXCEPT !.pc = "idle", !.status = status, !.body = body,
                !.patch = NoPatch, !.loaded = NoRow, !.modified = NoRow,
                !.selected = <<>>]

\* get_or_create_default_organization: select(Organization).limit(1) returns
\* one of the rows (the query states no order); with none, "default" is made.
default_organizations == IF orgs # {} THEN orgs ELSE {"default"}

\* The NotePatch bodies the PATCH requests carry: a new title, and a body
\* with neither member.
RestPatches == {PatchData("json", "b", Absent), PatchData("json", Absent, Absent)}

\* create_note: the organization lookup.
create_note_org(r, p, k, title, content_md) ==
    /\ rest[r].pc = "idle"
    /\ ~ProcBusy(p)
    /\ \E o \in default_organizations :
          /\ orgs' = orgs \cup {o}
          /\ rest' = [rest EXCEPT ![r] =
                [Begin(r, "create", p, k, None) EXCEPT
                    !.pc = "insert", !.org_id = o,
                    !.modified = Note(o, title, content_md, 1, FALSE)]]
    /\ UNCHANGED <<managerVars, threadVars, gate, quotaVars, notes, wsVars, indexVars, commit_log>>

\* create_note: db.add, commit (the id is a fresh uuid4).  note.org_id is a
\* foreign key to org.org_id: the insert needs the organization row.
create_note_commit(r, n) ==
    /\ rest[r].op = "create" /\ rest[r].pc = "insert"
    /\ ~ProcBusy(rest[r].proc)
    /\ rest[r].org_id \in orgs
    /\ n \notin DOMAIN notes
    /\ notes' = [m \in DOMAIN notes \cup {n} |->
                    IF m = n THEN rest[r].modified ELSE notes[m]]
    /\ rest' = [rest EXCEPT ![r] = [@ EXCEPT !.pc = "index", !.note_id = n]]
    /\ UNCHANGED <<managerVars, threadVars, gate, quotaVars, orgs, wsVars, indexVars, commit_log>>

\* create_note: the commit of a note whose org_id names no organization row
\* raises IntegrityError, which nothing catches: no note, a server error.
create_note_commit_refused(r) ==
    /\ rest[r].op = "create" /\ rest[r].pc = "insert"
    /\ ~ProcBusy(rest[r].proc)
    /\ rest[r].org_id \notin orgs
    /\ rest' = [rest EXCEPT ![r] = Respond(@, 500, NoBody)]
    /\ UNCHANGED <<managerVars, threadVars, gate, quotaVars, orgs, notes, wsVars, indexVars, commit_log>>

\* create_note: db.refresh, index_note, the 201 response.
create_note_index(r) ==
    LET n == rest[r].note_id IN
    /\ rest[r].op = "create" /\ rest[r].pc = "index"
    /\ ~ProcBusy(rest[r].proc)
    /\ index_note(rest[r].proc, n, notes[n])
    /\ rest' = [rest EXCEPT ![r] = Respond(@, 201, [NoBody EXCEPT !.note_id = n])]
    /\ UNCHANGED <<managerVars, threadVars, gate, quotaVars, orgs, notes, wsVars, commit_log>>

\* The note a note route loads for note_id: the query names no organization.
route_note_visible(k, n) == LiveNote(n)

\* The route declares response_model=NoteResponse: what the handler returns
\* is validated against it before the response is built, whatever status the
\* handler set. A note passes and is sent with the status and the headers
\* set on `response`; None does not pass, and the request ends as a server
\* error that carries none of them.
NoteResponse(returned, status_code, etag) ==
    IF returned = NoBody THEN [status |-> 500, body |-> NoBody]
    ELSE [status |-> status_code, body |-> [returned EXCEPT !.etag = etag]]

\* get_note: the select, the ETag header, the comparison with If-None-Match
\* (an absent or empty header is not compared) and the value returned.
get_note_returns(n, if_none_match) ==
    IF if_none_match # NoHeader /\ if_none_match = ETag(notes[n].version)
    THEN NoteResponse(NoBody, 304, ETag(notes[n].version))
    ELSE NoteResponse([NoBody EXCEPT !.note_id = n,
                                     !.version = notes[n].version,
                                     !.title = notes[n].title,
                                     !.content_md = notes[n].content_md],
                      200, ETag(notes[n].version))

get_note(r, p, k, n, if_none_match) ==
    LET req == [Begin(r, "get", p, k, n) EXCEPT !.if_none_match = if_none_match] IN
    /\ rest[r].pc = "idle"
    /\ ~ProcBusy(p)
    /\ rest' = [rest EXCEPT ![r] =
          IF ~route_note_visible(k, n)
          THEN Respond(req, 404, NoBody)
          ELSE Respond(req, get_note_returns(n, if_none_match).status,
                       get_note_returns(n, if_none_match).body)]
    /\ UNCHANGED <<managerVars, threadVars, gate, quotaVars, orgs, notes, wsVars, indexVars, commit_log>>

\* The notes list_notes selects: every note that is not deleted.
listed_notes(k) == {n \in DOMAIN notes : ~notes[n].deleted}

\* list_notes
list_notes(r, p, k) ==
    /\ rest[r].pc = "idle"
    /\ ~ProcBusy(p)
    /\ rest' = [rest EXCEPT ![r] =
          Respond(Begin(r, "list", p, k, None), 200,
                  [NoBody EXCEPT !.listed = listed_notes(k)])]
    /\ UNCHANGED <<managerVars, threadVars, gate, quotaVars, orgs, notes, wsVars, indexVars, commit_log>>

\* update_note: the select, and the changes made to the loaded object.
update_note_select(r, p, k, n, patch) ==
    /\ rest[r].pc = "idle"
    /\ ~ProcBusy(p)
    /\ IF ~route_note_visible(k, n)
       THEN rest' = [rest EXCEPT ![r] = Respond(Begin(r, "patch", p, k, n), 404, NoBody)]
       ELSE IF patch.title = Absent /\ patch.content_md = Absent
       THEN rest' = [rest EXCEPT ![r] =
                Respond(Begin(r, "patch", p, k, n), 200,
                        [NoBody EXCEPT !.version = notes[n].version])]
       ELSE rest' = [rest EXCEPT ![r] =
                [Begin(r, "patch", p, k, n) EXCEPT
                    !.pc = "commit", !.patch = patch, !.loaded = notes[n],
                    !.modified = [ApplyPatch(notes[n], patch)
                                    EXCEPT !.version = notes[n].version + 1]]]
    /\ UNCHANGED <<managerVars, threadVars, gate, quotaVars, orgs, notes, wsVars, indexVars, commit_log>>

\* update_note: db.add, commit.
update_note_commit(r) ==
    LET n == rest[r].note_id IN
    /\ rest[r].op = "patch" /\ rest[r].pc = "commit"
    /\ ~ProcBusy(rest[r].proc)
    /\ notes' = [notes EXCEPT ![n] = FlushRow(@, rest[r].loaded, rest[r].modified)]
    /\ commit_log' = Append(commit_log,
            Committed("rest", r, n, 0, notes[n],
                      FlushRow(notes[n], rest[r].loaded, rest[r].modified)))
    /\ rest' = [rest EXCEPT ![r].pc = "index"]
    /\ UNCHANGED <<managerVars, threadVars, gate, quotaVars, orgs, wsVars, indexVars>>

\* update_note: db.refresh, index_note, the response with the version read.
update_note_index(r) ==
    LET n == rest[r].note_id IN
    /\ rest[r].op = "patch" /\ rest[r].pc = "index"
    /\ ~ProcBusy(rest[r].proc)
    /\ index_note(rest[r].proc, n, notes[n])
    /\ rest' = [rest EXCEPT ![r] =
                  Respond(@, 200, [NoBody EXCEPT !.version = notes[n].version])]
    /\ UNCHANGED <<managerVars, threadVars, gate, quotaVars, orgs, notes, wsVars, commit_log>>

\* delete_note: the select, and note.deleted = True on the loaded object.
delete_note_select(r, p, k, n) ==
    /\ rest[r].pc = "idle"
    /\ ~ProcBusy(p)
    /\ rest' = [rest EXCEPT ![r] =
          IF ~route_note_visible(k, n)
          THEN Respond(Begin(r, "delete", p, k, n), 404, NoBody)
          ELSE [Begin(r, "delete", p, k, n) EXCEPT
                    !.pc = "commit", !.loaded = notes[n],
                    !.modified = [notes[n] EXCEPT !.deleted = TRUE]]]
    /\ UNCHANGED <<managerVars, threadVars, gate, quotaVars, orgs, notes, wsVars, indexVars, commit_log>>

\* delete_note: db.add, commit.
delete_note_commit(r) ==
    LET n == rest[r].note_id IN
    /\ rest[r].op = "delete" /\ rest[r].pc = "commit"
    /\ ~ProcBusy(rest[r].proc)
    /\ notes' = [notes EXCEPT ![n] = FlushRow(@, rest[r].loaded, rest[r].modified)]
    /\ rest' = [rest EXCEPT ![r].pc = "index"]
    /\ UNCHANGED <<managerVars, threadVars, gate, quotaVars, orgs, wsVars, indexVars, commit_log>>

\* delete_note: remove_note_from_index(note) and the response.  The commit
\* expired the note and the route does not refresh it; reading note.org_id
\* makes the async session reload the row.
delete_note_index(r) ==
    LET n == rest[r].note_id IN
    /\ rest[r].op = "delete" /\ rest[r].pc = "index"
    /\ ~ProcBusy(rest[r].proc)
    /\ remove_note_from_index(rest[r].proc, n, notes[n])
    /\ rest' = [rest EXCEPT ![r] = Respond(@, 200, NoBody)]
    /\ UNCHANGED <<managerVars, threadVars, gate, quotaVars, orgs, notes, wsVars, commit_log>>

\* delete_note: the reload of the expired note is refused outside a greenlet
\* (MissingGreenlet) and the route ends with status 500, the index untouched.
delete_note_reload_refused(r) ==
    /\ rest[r].op = "delete" /\ rest[r].pc = "index"
    /\ ~ProcBusy(rest[r].proc)
    /\ rest' = [rest EXCEPT ![r] = Respond(@, 500, NoBody)]
    /\ UNCHANGED <<managerVars, threadVars, gate, quotaVars, orgs, notes, wsVars, indexVars, commit_log>>

\* ------------------------------------------------------------ search routes

\* The organization search_notes is asked to search for a request with
\* api_key k: the default organization, whatever the key.
search_org(k) == default_organizations

\* search_notes(query, org_id, top_k) in process p.
search_notes(p, query, org, top_k) ==
    index_search(get_index_for_org(p, org), text_to_embedding(<<query>>), top_k)

\* POST /v1/search
search(r, p, k, query, top_k) ==
    /\ rest[r].pc = "idle"
    /\ ~ProcBusy(p)
    /\ \E o \in search_org(k) :
          /\ orgs' = orgs \cup {o}
          /\ rest' = [rest EXCEPT ![r] =
                Respond([Begin(r, "search", p, k, None) EXCEPT !.org_id = o], 200,
                        [NoBody EXCEPT !.results = search_notes(p, query, o, top_k)])]
          /\ index_registry' = [index_registry EXCEPT ![p][o] = get_index_for_org(p, o)]
    /\ UNCHANGED <<managerVars, threadVars, gate, quotaVars, notes, wsVars, snapshots, commit_log>>

\* The rows rebuild_index_for_org selects for an organization.
rebuild_selection(org) ==
    [n \in {m \in DOMAIN notes : notes[m].org_id = org /\ ~notes[m].deleted}
        |-> notes[n]]

\* POST /v1/search/rebuild: the organization lookup and the select.
rebuild_index_select(r, p, k) ==
    /\ rest[r].pc = "idle"
    /\ ~ProcBusy(p)
    /\ \E o \in search_org(k) :
          /\ orgs' = orgs \cup {o}
          /\ rest' = [rest EXCEPT ![r] =
                [Begin(r, "rebuild", p, k, None) EXCEPT
                    !.pc = "rebuild", !.org_id = o, !.selected = rebuild_selection(o)]]
    /\ UNCHANGED <<managerVars, threadVars, gate, quotaVars, notes, wsVars, indexVars, commit_log>>

\* The lists of the elements of a set, each element once.
Orderings(S) ==
    {f \in [1..Cardinality(S) -> S] : \A i, j \in 1..Cardinality(S) : f[i] = f[j] => i = j}

RECURSIVE AddAll(_, _, _)
AddAll(idx, order, rows) ==
    IF order = <<>> THEN idx
    ELSE AddAll(add_note(idx, Head(order),
                         text_to_embedding(NoteText(rows[Head(order)].title,
                                                    rows[Head(order)].content_md))),
                Tail(order), rows)

\* rebuild_index_for_org after its select: the lists are emptied and the
\* selected notes added, in the order the select returned them.
rebuild_index_for_org(r) ==
    LET p == rest[r].proc
        o == rest[r].org_id
        rows == rest[r].selected
    IN
    /\ rest[r].op = "rebuild" /\ rest[r].pc = "rebuild"
    /\ ~ProcBusy(p)
    /\ \E order \in Orderings(DOMAIN rows) :
          /\ index_registry' = [index_registry EXCEPT ![p][o] =
                                    AddAll(EmptyIndex, order, rows)]
          /\ snapshots' = [snapshots EXCEPT ![o] = AddAll(EmptyIndex, order, rows)]
    /\ rest' = [rest EXCEPT ![r] =
                  Respond(@, 200, [NoBody EXCEPT !.version = Cardinality(DOMAIN rows)])]
    /\ UNCHANGED <<managerVars, threadVars, gate, quotaVars, orgs, notes, wsVars, commit_log>>

\* ------------------------------------------------------------ gRPC service

\* The status codes a call of the servicer can end with.
GrpcInternal == 13
GrpcUnauthenticated == 16

\* NoteServiceServicer.Edit as served by serve(), whose db_getter is
\* get_async_db.  With an x-api-key, authenticate calls next() on the async
\* generator db_getter returns: the TypeError reaches Edit's except clause,
\* which aborts the call INTERNAL.  Without one, authenticate aborts the call
\* UNAUTHENTICATED and the same except clause aborts it once more: the call
\* ends with one of the two codes.  No request of the stream is read and no
\* note is queried or changed.
Edit(r, p, k) ==
    /\ rest[r].pc = "idle"
    /\ ~ProcBusy(p)
    /\ \E code \in IF k # "" THEN {GrpcInternal}
                  ELSE {GrpcUnauthenticated, GrpcInternal} :
          rest' = [rest EXCEPT ![r] = Respond(Begin(r, "Edit", p, k, None), code, NoBody)]
    /\ UNCHANGED <<managerVars, threadVars, gate, quotaVars, orgs, notes, wsVars, indexVars, commit_log>>

\* ------------------------------------------------------------- rate limiter

\* The window and the capacities of the limiter, scaled down: the window is
\* self.window seconds, the capacities are requests_per_minute and
\* bytes_per_minute.  MaxClock is the last second the clock reaches, MaxCalls
\* and MaxByteCalls the number of check_rate_limit calls made, MaxBytes the
\* bytes_count of a call that has one.
QuotaWindow == 3
RequestsPerMinute == 3
BytesPerMinute == 2
MaxClock == 3
MaxCalls == 7
MaxByteCalls == 4
MaxBytes == 2

\* The callers of RateLimiter.check_rate_limit, in any process.
Limiters == {"c1", "c2", "c3"}

\* The organization whose buckets the calls are made against.
QuotaOrgs == {"T1"}

\* The keys rl:org:<org_id>:<metric>:REST.
RedisKeys == Tenants \X {"req", "bytes"}

\* A key that does not exist, and the hash a key holds with its expiry time.
NoBucket == [exists |-> FALSE, tokens |-> 0, last_refill |-> 0, expires |-> 0]
Bucket(tokens, last_refill, expires) ==
    [exists |-> TRUE, tokens |-> tokens, last_refill |-> last_refill, expires |-> expires]

\* math.ceil(a / b) for a >= 0, b > 0.
Ceil(a, b) == (a + b - 1) \div b

RATE_LIMIT_SCRIPT_mutant_uncapped(bucket, at, now, window, capacity, requested) ==
    LET had == IF bucket.exists THEN bucket.tokens ELSE capacity
        last_refill == IF bucket.exists THEN bucket.last_refill ELSE 0
        elapsed == IF now > last_refill THEN now - last_refill ELSE 0
        refill == (elapsed * capacity) \div window
        tokens == had + refill
    IN  IF tokens >= requested
        THEN [bucket |-> Bucket(tokens - requested, now, at + window),
              tokens |-> tokens - requested, retry_after |-> 0]
        ELSE [bucket |-> bucket, tokens |-> tokens,
              retry_after |-> Ceil((requested - tokens) * window, capacity)]

RATE_LIMIT_SCRIPT_mutant_floor(bucket, at, now, window, capacity, requested) ==
    LET had == IF bucket.exists THEN bucket.tokens ELSE capacity
        last_refill == IF bucket.exists THEN bucket.last_refill ELSE 0
        elapsed == IF now > last_refill THEN now - last_refill ELSE 0
        refill == (elapsed * capacity) \div window
        tokens == Min(capacity, had + refill)
    IN  IF tokens >= requested
        THEN [bucket |-> Bucket(tokens - requested, now, at + window),
              tokens |-> tokens - requested, retry_after |-> 0]
        ELSE [bucket |-> bucket, tokens |-> tokens,
              retry_after |-> ((requested - tokens) * window) \div capacity]

RATE_LIMIT_SCRIPT_mutant_ttl(bucket, at, now, window, capacity, requested) ==
    LET had == IF bucket.exists THEN bucket.tokens ELSE capacity
        last_refill == IF bucket.exists THEN bucket.last_refill ELSE 0
        elapsed == IF now > last_refill THEN now - last_refill ELSE 0
        refill == (elapsed * capacity) \div window
        tokens == Min(capacity, had + refill)
    IN  IF tokens >= requested
        THEN [bucket |-> Bucket(tokens - requested, now, at + window - 1),
              tokens |-> tokens - requested, retry_after |-> 0]
        ELSE [bucket |-> bucket, tokens |-> tokens,
              retry_after |-> Ceil((requested - tokens) * window, capacity)]

\* RATE_LIMIT_SCRIPT, run by the Redis server in one piece on the hash
\* `bucket` at server time `at`: the hash it leaves, and the pair
\* {tokens, retry_after} it returns.
RATE_LIMIT_SCRIPT(bucket, at, now, window, capacity, requested) ==
    LET had == IF bucket.exists THEN bucket.tokens ELSE capacity
        last_refill == IF bucket.exists THEN bucket.last_refill ELSE 0
        elapsed == IF now > last_refill THEN now - last_refill ELSE 0
        refill == (elapsed * capacity) \div window
        tokens == Min(capacity, had + refill)
    IN  IF tokens >= requested
        THEN [bucket |-> Bucket(tokens - requested, now, at + window),
              tokens |-> tokens - requested, retry_after |-> 0]
        ELSE [bucket |-> bucket, tokens |-> tokens,
              retry_after |-> Ceil((requested - tokens) * window, capacity)]

MaxScriptCalls == 4
MaxScriptClock == 5
MaxRequested == 3

\* The key the script is invoked on directly, and its capacity.
ScriptKey == <<"T1", "bytes">>

\* The last invocation of the script on ScriptKey: its arguments, what it
\* returned, what it would have returned on a hash that never expires,
\* whether it repeats a denied invocation after the time that one named,
\* and whether it found the key expired.
NoScriptCall ==
    [made |-> FALSE, now |-> 0, requested |-> 0, tokens |-> 0, retry_after |-> 0,
     ideal_tokens |-> 0, ideal_retry_after |-> 0, retried |-> FALSE,
     expired |-> FALSE]

\* The last denial that no allowed call has followed yet.
NoDenial == [pending |-> FALSE, now |-> 0, requested |-> 0, retry_after |-> 0]

\* rate_limit_script(keys=[key], args=[now, window, capacity, requested]) on
\* ScriptKey; `now` is the second the caller read from its clock.
rate_limit_script(now, capacity, requested) ==
    LET res == RATE_LIMIT_SCRIPT(redis[ScriptKey], clock, now, QuotaWindow,
                                 capacity, requested)
        ideal == RATE_LIMIT_SCRIPT(quota_hist.ideal, clock, now, QuotaWindow,
                                   capacity, requested)
        d == quota_hist.denial
    IN
    /\ quota_hist.script_calls < MaxScriptCalls
    /\ redis' = [redis EXCEPT ![ScriptKey] = res.bucket]
    /\ quota_hist' = [quota_hist EXCEPT
          !.script_calls = @ + 1,
          !.ideal = ideal.bucket,
          !.last = [made |-> TRUE, now |-> now, requested |-> requested,
                    tokens |-> res.tokens, retry_after |-> res.retry_after,
                    ideal_tokens |-> ideal.tokens,
                    ideal_retry_after |-> ideal.retry_after,
                    retried |-> /\ d.pending /\ d.requested = requested
                                /\ now >= d.now + d.retry_after,
                    expired |-> ~redis[ScriptKey].exists /\ quota_hist.ideal.exists],
          !.denial = IF res.retry_after > 0
                     THEN IF d.pending THEN d
                          ELSE [pending |-> TRUE, now |-> now, requested |-> requested,
                                retry_after |-> res.retry_after]
                     ELSE NoDenial]
    /\ UNCHANGED <<clock, limiter>>
    /\ UNCHANGED <<managerVars, threadVars, gate, orgs, notes, wsVars, rest, indexVars, commit_log>>

\* A call of check_rate_limit that has not been made.
IdleLimiter ==
    [pc |-> "idle", org_id |-> None, now |-> 0, bytes_count |-> 0, allowed |-> "-",
     took_req |-> 0, took_bytes |-> 0, after_drain |-> FALSE,
     requests_per_minute |-> RequestsPerMinute, bytes_per_minute |-> BytesPerMinute,
     status |-> 0]

\* The second `at` is inside the window that began when the request bucket
\* of T1 was first left empty.
InDrainWindow(at) ==
    quota_hist.drained_at >= 0 /\ at < quota_hist.drained_at + QuotaWindow

\* RateLimiter.check_rate_limit: now = int(time.time()).
check_rate_limit_now(c, org, bytes_count) ==
    /\ limiter[c].pc \in {"idle", "done"}
    /\ limiter' = [limiter EXCEPT ![c] =
          [IdleLimiter EXCEPT !.pc = "req", !.org_id = org, !.now = clock,
                              !.bytes_count = bytes_count,
                              !.after_drain = (org = "T1" /\ InDrainWindow(clock))]]
    /\ quota_hist' = [quota_hist EXCEPT !.calls = @ + 1]
    /\ UNCHANGED <<clock, redis>>
    /\ UNCHANGED <<managerVars, threadVars, gate, orgs, notes, wsVars, rest, indexVars, commit_log>>

\* RateLimiter.check_rate_limit: the script on the request key, for 1 request.
check_rate_limit_requests(c) ==
    LET key == <<limiter[c].org_id, "req">>
        res == RATE_LIMIT_SCRIPT(redis[key], clock, limiter[c].now, QuotaWindow,
                                 limiter[c].requests_per_minute, 1)
    IN
    /\ limiter[c].pc = "req"
    /\ redis' = [redis EXCEPT ![key] = res.bucket]
    /\ limiter' = [limiter EXCEPT ![c] =
          IF res.retry_after > 0
          THEN [@ EXCEPT !.pc = "done", !.now = 0, !.allowed = "limited"]
          ELSE IF limiter[c].bytes_count > 0
          THEN [@ EXCEPT !.pc = "bytes", !.took_req = 1]
          ELSE [@ EXCEPT !.pc = "done", !.now = 0, !.took_req = 1,
                         !.allowed = "allowed"]]
    /\ quota_hist' = [quota_hist EXCEPT
          !.drained_at = IF @ < 0 /\ key[1] = "T1" /\ res.retry_after = 0
                            /\ res.tokens = 0
                         THEN clock ELSE @,
          !.grants = IF res.retry_after = 0 /\ limiter[c].after_drain
                        /\ InDrainWindow(clock)
                     THEN @ + 1 ELSE @]
    /\ UNCHANGED clock
    /\ UNCHANGED <<managerVars, threadVars, gate, orgs, notes, wsVars, rest, indexVars, commit_log>>

\* RateLimiter.check_rate_limit: the script on the bytes key, for bytes_count.
check_rate_limit_bytes(c) ==
    LET key == <<limiter[c].org_id, "bytes">>
        res == RATE_LIMIT_SCRIPT(redis[key], clock, limiter[c].now, QuotaWindow,
                                 limiter[c].bytes_per_minute, limiter[c].bytes_count)
    IN
    /\ limiter[c].pc = "bytes"
    /\ redis' = [redis EXCEPT ![key] = res.bucket]
    /\ limiter' = [limiter EXCEPT ![c] =
          IF res.retry_after > 0
          THEN [@ EXCEPT !.pc = "done", !.now = 0, !.allowed = "limited"]
          ELSE [@ EXCEPT !.pc = "done", !.now = 0,
                         !.took_bytes = limiter[c].bytes_count,
                         !.allowed = "allowed"]]
    /\ UNCHANGED <<clock, quota_hist>>
    /\ UNCHANGED <<managerVars, threadVars, gate, orgs, notes, wsVars, rest, indexVars, commit_log>>

\* A second passes; the Redis server drops the keys whose expiry is reached.
Tick ==
    /\ clock' = clock + 1
    /\ redis' = [key \in RedisKeys |->
                    IF redis[key].exists /\ redis[key].expires <= clock + 1
                    THEN NoBucket ELSE redis[key]]
    /\ UNCHANGED <<limiter, quota_hist>>
    /\ UNCHANGED <<managerVars, threadVars, gate, orgs, notes, wsVars, rest, indexVars, commit_log>>

\* ------------------------------------------------------------ state machine

\* ------------------------------------------------------ authentication gates

\* The user table: user_id, org_id and role of each row.
UserRows ==
    {[user_id |-> "u1", org_id |-> "T1", role |-> "owner"],
     [user_id |-> "u2", org_id |-> "T2", role |-> "owner"],
     [user_id |-> "u3", org_id |-> "T3", role |-> "editor"],
     [user_id |-> "u4", org_id |-> "T1", role |-> "editor"]}

\* expires_at of a key that has none.
NeverExpires == -1

\* hashlib.sha256(api_key.encode()).hexdigest()
hash_api_key(api_key) == <<"sha256", api_key>>

\* The api_key table: the key k1 of T1 never expires, the key k2 of T2
\* expires at second 1, and k3 is a key of T3, which has no owner.
ApiKeyRows ==
    {[hash |-> hash_api_key("k1"), org_id |-> "T1", expires_at |-> NeverExpires],
     [hash |-> hash_api_key("k2"), org_id |-> "T2", expires_at |-> 1],
     [hash |-> hash_api_key("k3"), org_id |-> "T3", expires_at |-> NeverExpires]}

\* The x-api-key values a call carries; "" is a call without the header.
GateKeys == {"", "k1", "k2", "k3", "bogus"}

\* The Authorization header of a call: none, a token that does not decode,
\* or a signed token with the sub it carries.
NoToken == <<"none", "">>
GarbageToken == <<"garbage", "">>
Jwt(sub) == <<"jwt", sub>>
GateTokens == {NoToken, GarbageToken, Jwt("u1"), Jwt("u4"), Jwt("ghost")}

\* What a gate hands to its caller: a principal, or the status it ended with.
Principal(user_id, org_id) ==
    [authenticated |-> TRUE, status |-> 0, user_id |-> user_id, org_id |-> org_id]
Refused(status) ==
    [authenticated |-> FALSE, status |-> status, user_id |-> None, org_id |-> None]

\* oauth2_scheme and get_current_user_from_token: a call without a bearer
\* token is refused by the scheme, a token that does not decode or whose sub
\* is no stored user by the function.
get_current_user_from_token(token) ==
    IF token = NoToken THEN {Refused(401)}
    ELSE IF token[1] # "jwt" THEN {Refused(401)}
    ELSE IF \A u \in UserRows : u.user_id # token[2] THEN {Refused(401)}
    ELSE {Principal(u.user_id, u.org_id) : u \in {v \in UserRows : v.user_id = token[2]}}

\* db_api_key.expires_at and db_api_key.expires_at < datetime.utcnow()
key_expired(row, now) == row.expires_at # NeverExpires /\ row.expires_at < now

\* select(User) of the organization with role OWNER, limit 1.
Owners(org_id) == {u.user_id : u \in {v \in UserRows : v.org_id = org_id /\ v.role = "owner"}}

\* get_current_user_from_api_key: (None, "") without a key, 401 for an
\* unknown or expired key, otherwise the owner found (or None) and the org.
get_current_user_from_api_key(api_key, now) ==
    LET rows == {k \in ApiKeyRows : k.hash = hash_api_key(api_key)} IN
    IF api_key = "" THEN {Principal(None, "")}
    ELSE IF rows = {} THEN {Refused(401)}
    ELSE UNION {IF key_expired(k, now) THEN {Refused(401)}
                ELSE IF Owners(k.org_id) = {} THEN {Principal(None, k.org_id)}
                ELSE {Principal(o, k.org_id) : o \in Owners(k.org_id)} : k \in rows}

\* get_current_user: both dependencies are resolved, the token's first; the
\* token's principal is taken when it has a user, else the key's.
get_current_user_outcomes(token, api_key, now) ==
    UNION {IF ~t.authenticated THEN {t}
           ELSE {IF ~a.authenticated THEN a
                 ELSE IF t.user_id # None THEN t
                 ELSE IF a.user_id # None THEN a
                 ELSE Refused(401) : a \in get_current_user_from_api_key(api_key, now)}
           : t \in get_current_user_from_token(token)}

\* NoteServiceServicer.authenticate within a handler of the servicer serve()
\* builds, whose db_getter is get_async_db.  With an x-api-key it calls next()
\* on an async generator: the TypeError reaches the handler's except clause,
\* which aborts the call INTERNAL.  Without one it aborts UNAUTHENTICATED
\* ("JWT not implemented" or "Authentication required") and the same except
\* clause aborts once more.
authenticate_outcomes(token, api_key) ==
    IF api_key # "" THEN {Refused(GrpcInternal)}
    ELSE {Refused(GrpcUnauthenticated), Refused(GrpcInternal)}

\* A gate call that was not made, and one that was.
NoCall ==
    [surface |-> "none", token |-> NoToken, api_key |-> "", at |-> 0,
     outcome |-> Refused(0)]
GateCall(surface, token, api_key, at, outcome) ==
    [surface |-> surface, token |-> token, api_key |-> api_key, at |-> at,
     outcome |-> outcome]

\* A REST call passes the dependency get_current_user.
get_current_user(c, token, api_key) ==
    /\ \E outcome \in get_current_user_outcomes(token, api_key, clock) :
          gate' = [gate EXCEPT ![c] = GateCall("rest", token, api_key, clock, outcome)]
    /\ UNCHANGED <<managerVars, threadVars, quotaVars, orgs, notes, wsVars, rest, indexVars, commit_log>>

\* A gRPC call passes authenticate.
authenticate(c, token, api_key) ==
    /\ \E outcome \in authenticate_outcomes(token, api_key) :
          gate' = [gate EXCEPT ![c] = GateCall("grpc", token, api_key, clock, outcome)]
    /\ UNCHANGED <<managerVars, threadVars, quotaVars, orgs, notes, wsVars, rest, indexVars, commit_log>>

\* --------------------------------------------- check_rate_limit (dependency)

\* The quota_json column of an org row: null, a JSON object (read back as a
\* dict), or a JSON string that holds the text of an object.  `value` is the
\* mapping the object states.
Quota(kind, value) == [kind |-> kind, value |-> value]
NoQuota == Quota("null", <<>>)

\* The org table's quota_json: T1 has an object with 2 requests per minute,
\* T2 a string with the text of an object with 1 byte per minute.
quota_json(org_id) ==
    IF org_id = "T1" THEN Quota("object", [k \in {"requests_per_minute"} |-> 2])
    ELSE IF org_id = "T2" THEN Quota("text", [k \in {"bytes_per_minute"} |-> 1])
    ELSE NoQuota

\* custom_limits: {} for a null or empty quota_json; json.loads of a string
\* gives the mapping, json.loads of a dict raises TypeError, which is passed
\* over and leaves {}.
custom_limits(org_id) ==
    LET q == quota_json(org_id) IN
    IF q.kind = "null" \/ DOMAIN q.value = {} THEN <<>>
    ELSE IF q.kind = "text" THEN q.value
    ELSE <<>>

\* dict.get(key, default)
Get(d, key, default) == IF key \in DOMAIN d THEN d[key] ELSE default

\* The dependency check_rate_limit of a REST request with the given
\* credentials and content-length: get_current_active_user, the limiter built
\* from the custom limits of the user's organization, and the entry into its
\* check_rate_limit (now = int(time.time())).  A refused call ends with 401.
check_rate_limit(c, token, api_key, bytes_count) ==
    /\ limiter[c].pc \in {"idle", "done"}
    /\ \E who \in get_current_user_outcomes(token, api_key, clock) :
          limiter' = [limiter EXCEPT ![c] =
             IF ~who.authenticated
             THEN [IdleLimiter EXCEPT !.pc = "done", !.allowed = "refused",
                                      !.status = who.status]
             ELSE [IdleLimiter EXCEPT
                      !.pc = "req", !.org_id = who.org_id, !.now = clock,
                      !.bytes_count = bytes_count,
                      !.after_drain = (who.org_id = "T1" /\ InDrainWindow(clock)),
                      !.requests_per_minute =
                          Get(custom_limits(who.org_id), "requests_per_minute",
                              RequestsPerMinute),
                      !.bytes_per_minute =
                          Get(custom_limits(who.org_id), "bytes_per_minute",
                              BytesPerMinute),
                      !.status = 429]]
    /\ quota_hist' = [quota_hist EXCEPT !.calls = @ + 1]
    /\ UNCHANGED <<clock, redis>>
    /\ UNCHANGED <<managerVars, threadVars, gate, orgs, notes, wsVars, rest, indexVars, commit_log>>

\* --------------------------------------------------- NoteConnectionManager

MaxPublishes == 2

\* What listen() yields first: the confirmation of the subscription.
SubscribeConfirmation == Frame("subscribe", "-", 0, "-", "-")

\* pubsub.listen() is a blocking generator of the synchronous Redis client:
\* while a task of process p is inside it, the event loop of p runs nothing.
LoopBlocked(p) == \E s \in Sessions : ws[s].proc = p /\ pubsub[s].task = "listening"

\* manager.connect(websocket, note_id) in process p: accept, the entry in
\* active_connections and connection_details, and the task that subscribes.
connect(s, p, n) ==
    /\ ws[s].state = "Idle"
    /\ ~ProcBusy(p) /\ ~LoopBlocked(p)
    /\ ws' = Opened(s, "manager", p, n, "", "Active", 0)
    /\ active_connections' = [active_connections EXCEPT ![p][n] = Append(@, s)]
    /\ active_keys' = [active_keys EXCEPT ![p] = @ \cup {n}]
    /\ connection_details' = [connection_details EXCEPT ![p] = @ \cup {s}]
    /\ pubsub' = [pubsub EXCEPT ![s].task = "created"]
    /\ UNCHANGED <<threadVars, gate, quotaVars, orgs, notes, frames, inflight, rest,
                   indexVars, commit_log>>

\* The caller of manager.connect leaves the session: manager.disconnect.
manager_disconnect(s) ==
    /\ ws[s].state = "Active" /\ ws[s].handler = "manager"
    /\ ~ProcBusy(ws[s].proc) /\ ~LoopBlocked(ws[s].proc)
    /\ ws' = [ws EXCEPT ![s].state = "Closed"]
    /\ active_connections' = disconnect(ws[s].proc, s)
    /\ active_keys' = disconnect_keys(ws[s].proc, s)
    /\ connection_details' = disconnect_details(ws[s].proc, s)
    /\ pubsub' = [pubsub EXCEPT ![s].disconnects = @ + 1]
    /\ UNCHANGED <<threadVars, gate, quotaVars, orgs, notes, frames, inflight, rest,
                   indexVars, commit_log>>

\* _subscribe_to_note runs for the first time: pubsub.subscribe, and the
\* task enters `for message in pubsub.listen()`.
_subscribe_to_note_subscribe(s) ==
    /\ pubsub[s].task = "created"
    /\ ~ProcBusy(ws[s].proc) /\ ~LoopBlocked(ws[s].proc)
    /\ pubsub' = [pubsub EXCEPT ![s].task = "listening",
                                ![s].pending = <<SubscribeConfirmation>>]
    /\ UNCHANGED <<threadVars, gate, quotaVars, orgs, notes, wsVars, active_keys,
                   connection_details, rest, indexVars, commit_log>>

\* listen() yields a message: one that is no "message" is skipped; when the
\* websocket has left connection_details the loop breaks and the finally
\* clause unsubscribes; otherwise the data is sent to the websocket.
_subscribe_to_note_listen(s) ==
    LET m == Head(pubsub[s].pending) IN
    /\ pubsub[s].task = "listening"
    /\ pubsub[s].pending # <<>>
    /\ IF m.type # "update"
       THEN /\ pubsub' = [pubsub EXCEPT ![s].pending = Tail(@)]
            /\ UNCHANGED frames
       ELSE IF s \notin connection_details[ws[s].proc]
       THEN /\ pubsub' = [pubsub EXCEPT ![s].task = "unsubscribed", ![s].pending = <<>>]
            /\ UNCHANGED frames
       ELSE /\ pubsub' = [pubsub EXCEPT ![s].task = "sending", ![s].pending = Tail(@)]
            /\ frames' = SendTo({s}, m)
    /\ UNCHANGED <<threadVars, gate, quotaVars, orgs, notes, ws, inflight,
                   active_connections, active_keys, connection_details, rest,
                   indexVars, commit_log>>

\* `await self._send_message(...)` is over and the task goes back into
\* listen().
_subscribe_to_note_resume(s) ==
    /\ pubsub[s].task = "sending"
    /\ ~ProcBusy(ws[s].proc) /\ ~LoopBlocked(ws[s].proc)
    /\ pubsub' = [pubsub EXCEPT ![s].task = "listening"]
    /\ UNCHANGED <<threadVars, gate, quotaVars, orgs, notes, wsVars, active_keys,
                   connection_details, rest, indexVars, commit_log>>

\* The sessions whose subscription Redis delivers a message on note:<n> to.
Subscribers(n) ==
    {s \in Sessions : ws[s].note_id = n /\ pubsub[s].task \in {"listening", "sending"}}

\* manager.broadcast_to_note(note_id, message) in process q:
\* redis_client.publish on the channel of the note.
broadcast_to_note(q, n) ==
    /\ ~ProcBusy(q) /\ ~LoopBlocked(q)
    /\ LiveNote(n)
    /\ Subscribers(n) # {}
    /\ \A s \in Subscribers(n) : pubsub[s].delivered < MaxPublishes
    /\ pubsub' = [s \in Sessions |->
          IF s \in Subscribers(n)
          THEN [pubsub[s] EXCEPT !.pending = Append(@, UpdateFrame(notes[n])),
                                 !.delivered = @ + 1]
          ELSE pubsub[s]]
    /\ UNCHANGED <<threadVars, gate, quotaVars, orgs, notes, wsVars, active_keys,
                   connection_details, rest, indexVars, commit_log>>

\* handle_websocket_connection leaves its loop through an exception (the
\* outer `except Exception`: close(1011)) or is cancelled while it awaits a
\* frame (no close); either way the finally clause runs manager.disconnect.
handle_websocket_connection_exit(s, close_code) ==
    /\ ws[s].state = "Active" /\ ws[s].handler = "managed"
    /\ ws[s].pc = "recv"
    /\ ~ProcBusy(ws[s].proc) /\ ~LoopBlocked(ws[s].proc)
    /\ ws' = [ws EXCEPT ![s].state = "Closed", ![s].close_code = close_code]
    /\ active_connections' = disconnect(ws[s].proc, s)
    /\ active_keys' = disconnect_keys(ws[s].proc, s)
    /\ connection_details' = disconnect_details(ws[s].proc, s)
    /\ pubsub' = [pubsub EXCEPT ![s].disconnects = @ + 1]
    /\ UNCHANGED <<threadVars, gate, quotaVars, orgs, notes, frames, inflight, rest,
                   indexVars, commit_log>>

\* The organizations, their api keys and the empty note table exist before
\* the service starts; no session is open and no index is in memory or on
\* disk.
Init ==
    /\ orgs = Tenants
    /\ notes = <<>>
    /\ ws = [s \in Sessions |-> IdleSession]
    /\ frames = [s \in Sessions |-> <<>>]
    /\ inflight = [s \in Sessions |-> NoMsg]
    /\ rest = [r \in Requests |-> IdleRequest]
    /\ index_registry = [p \in Procs |-> [o \in Tenants |-> NoIndex]]
    /\ snapshots = [o \in Tenants |-> NoIndex]
    /\ active_connections = [p \in Procs |-> [n \in NoteIds |-> <<>>]]
    /\ commit_log = <<>>
    /\ clock = 0
    /\ redis = [key \in RedisKeys |-> NoBucket]
    /\ limiter = [c \in Limiters |-> IdleLimiter]
    /\ quota_hist = [drained_at |-> -1, grants |-> 0, calls |-> 0,
                     script_calls |-> 0, last |-> NoScriptCall, ideal |-> NoBucket,
                     denial |-> NoDenial]
    /\ gate = [c \in Callers |-> NoCall]
    /\ threads = [t \in Threads |-> IdleThread]
    /\ index_lock = None
    /\ added = [n \in NoteIds |-> NoVector]
    /\ active_keys = [p \in Procs |-> {}]
    /\ connection_details = [p \in Procs |-> {}]
    /\ pubsub = [s \in Sessions |-> NoPubSub]

\* One note, created through POST /v1/notes by request slot r1.
CreateOneNote ==
    \/ notes = <<>> /\ rest["r1"].pc = "idle" /\ create_note_org("r1", "P1", "k1", "a", "a")
    \/ create_note_commit("r1", "n1")
    \/ create_note_index("r1")

\* The note is deleted once, through DELETE /v1/notes/n1 by request slot r2.
DeleteOneNote ==
    \/ rest["r2"].op = "none" /\ delete_note_select("r2", "P2", "k1", "n1")
    \/ delete_note_commit("r2")
    \/ delete_note_index("r2")
    \/ delete_note_reload_refused("r2")

\* The patch frames the clients of the edit specifications send.
EditPatches == {PatchData("json", "b", Absent), PatchData("json", Absent, "b")}

\* Every note is at version b or below: the handlers still take requests.
VersionsUpTo(b) == \A n \in DOMAIN notes : notes[n].version <= b

\* One step of the handler of session s.
WsStep(s, top) ==
    \/ VersionsUpTo(top) /\ simple_websocket_handler_receive(s)
    \/ simple_websocket_handler_commit(s)
    \/ simple_websocket_handler_update(s)

\* A session may be served by either process.
AnyProc == [s \in Sessions |-> Procs]

\* Session s1 is served by process P1 and session s2 by process P2.
OwnProc == [s \in Sessions |-> IF s = "s1" THEN {"P1"} ELSE {"P2"}]

\* WebSocket sessions on note n1, served by a process of placement[s], with
\* clients that send up to `sends` frames carrying a version up to `top`.
WsNext(sessions, placement, credentials, patches, sends, top) ==
    \/ \E s \in sessions, k \in credentials : \E p \in placement[s] :
          simple_websocket_handler_connect(s, p, "n1", k)
    \/ \E s \in sessions, v \in 1..top, pd \in patches :
          ws[s].sent < sends /\ ClientSend(s, PatchMsg(v, pd))
    \/ \E s \in sessions : WsStep(s, top)

\* One step of the handler of session s, were the endpoint served by
\* handle_websocket_connection.
ManagedStep(s, top) ==
    \/ VersionsUpTo(top) /\ handle_websocket_connection_receive(s)
    \/ handle_websocket_connection_commit(s)
    \/ handle_websocket_connection_update(s)

ManagedNext(sessions, placement, credentials, patches, sends, top) ==
    \/ \E s \in sessions, k \in credentials : \E p \in placement[s] :
          handle_websocket_connection_connect(s, p, "n1", k)
    \/ \E s \in sessions, v \in 1..top, pd \in patches :
          ws[s].sent < sends /\ ClientSend(s, PatchMsg(v, pd))
    \/ \E s \in sessions : ManagedStep(s, top)
    \/ \E s \in sessions : ClientClose(s)

\* main.py serves /ws/notes/{note_id} with simple_websocket_handler; the
\* sessions of SpecManaged are served by handle_websocket_connection instead.
NextManaged ==
    \/ CreateOneNote
    \/ ManagedNext(Sessions, AnyProc, {"k1", ""},
                   {PatchData("json", "b", Absent), GarbagePatch},
                   MaxSends, MaxVersion)

SpecManaged == Init /\ [][NextManaged]_vars

NextWs ==
    CreateOneNote \/ WsNext(Sessions, AnyProc, {"k1", ""}, EditPatches, MaxSends, MaxVersion)

SpecWs == Init /\ [][NextWs]_vars

\* Two sessions on two processes whose clients also send patch data that
\* cannot be decoded, while the note may be deleted.
NextReject ==
    \/ CreateOneNote
    \/ DeleteOneNote
    \/ WsNext(Sessions, OwnProc, {"k1"},
              {PatchData("json", "b", Absent), GarbagePatch},
              MaxSends, MaxVersion)

SpecReject == Init /\ [][NextReject]_vars

\* Two sessions that are opened with the api key or with no credential,
\* before the note is created, while it is stored, or after it was deleted.
NextOpen ==
    \/ CreateOneNote
    \/ DeleteOneNote
    \/ WsNext(Sessions, OwnProc, {"k1", ""}, {PatchData("json", "b", Absent)},
              MaxSends, MaxVersion)

SpecOpen == Init /\ [][NextOpen]_vars

\* The event loop of each process runs a handler that can take a step.
SpecWsFair == SpecWs /\ \A s \in Sessions : WF_vars(WsStep(s, MaxVersion))

\* Two sessions, the client of the first of which sends a patch again after
\* the answer to its previous one; the event loop of each process runs a
\* handler that can take a step.
NextRetry ==
    \/ CreateOneNote
    \/ WsNext({"s1"}, OwnProc, {"k1"}, {PatchData("json", "b", Absent)},
              MaxSends + 1, MaxVersion)
    \/ WsNext({"s2"}, OwnProc, {"k1"}, {PatchData("json", "b", Absent)},
              MaxSends, MaxVersion)

SpecRetry ==
    /\ Init /\ [][NextRetry]_vars
    /\ \A s \in Sessions : WF_vars(WsStep(s, MaxVersion))

\* PATCH /v1/notes/n1 requests, taken while fewer than `commits` patch
\* commits have been made.
RestEditNext(requests, patches, commits) ==
    \/ \E r \in requests, p \in Procs, pd \in patches :
          Len(commit_log) < commits /\ update_note_select(r, p, "k1", "n1", pd)
    \/ \E r \in requests : update_note_commit(r)
    \/ \E r \in requests : update_note_index(r)

NextEdit ==
    \/ CreateOneNote
    \/ WsNext({"s1"}, AnyProc, {"k1"}, {PatchData("json", Absent, "b")},
              MaxSends, MaxVersion)
    \/ RestEditNext(Callers, RestPatches, MaxCommits)

SpecEdit == Init /\ [][NextEdit]_vars

\* PATCH /v1/notes/n1 requests of two callers, the only writers of the note.
NextPatch ==
    \/ CreateOneNote
    \/ RestEditNext(Callers, RestPatches, MaxCommits)

SpecPatch == Init /\ [][NextPatch]_vars

\* One client that presents any credential, patches and closes, and one
\* that calls the gRPC Edit stream with any credential.
NextAdmit ==
    \/ CreateOneNote
    \/ WsNext({"s1"}, AnyProc, Credentials, ClientPatches, MaxSends, MaxVersion)
    \/ ClientClose("s1")
    \/ \E p \in Procs, k \in Credentials : Edit("r2", p, k)

SpecAdmit == Init /\ [][NextAdmit]_vars

\* The id the next created note gets.
FreshNoteId == IF "n1" \notin DOMAIN notes THEN "n1" ELSE "n2"

\* Requests that are between create_note's organization lookup and its insert.
Inserting == {r \in Requests : rest[r].op = "create" /\ rest[r].pc = "insert"}

\* The callers of the tenant specification: one per tenant, each with the
\* api_key of its tenant, each served by its own process.
CallerKey == [r \in Requests |-> IF r = "r1" THEN "k1" ELSE "k2"]
CallerProc == [r \in Requests |-> IF r = "r1" THEN "P1" ELSE "P2"]

\* POST /v1/notes by request slot r, while a note id is left.
CreateNext(r) ==
    \/ /\ Cardinality(DOMAIN notes) + Cardinality(Inserting) < Cardinality(NoteIds)
       /\ create_note_org(r, CallerProc[r], CallerKey[r], "a", "a")
    \/ create_note_commit(r, FreshNoteId)
    \/ create_note_index(r)

\* PATCH and DELETE /v1/notes/{note_id} by request slot r.
MutateNext(r, patches) ==
    \/ \E n \in NoteIds :
          \/ delete_note_select(r, CallerProc[r], CallerKey[r], n)
          \/ /\ Len(commit_log) < patches
             /\ update_note_select(r, CallerProc[r], CallerKey[r], n,
                                   PatchData("json", "b", Absent))
    \/ update_note_commit(r)
    \/ update_note_index(r)
    \/ delete_note_commit(r)
    \/ delete_note_index(r)
    \/ delete_note_reload_refused(r)

\* The note routes used by the callers of two tenants.
NextTenant ==
    \E r \in Callers :
        \/ CreateNext(r)
        \/ MutateNext(r, MaxTenantPatches)
        \/ \E n \in NoteIds : get_note(r, CallerProc[r], CallerKey[r], n, NoHeader)
        \/ list_notes(r, CallerProc[r], CallerKey[r])

\* POST /v1/search and POST /v1/search/rebuild by request slot r.
SearchNext(r) ==
    \/ \E top_k \in 1..MaxTopK : search(r, CallerProc[r], CallerKey[r], "a", top_k)
    \/ rebuild_index_select(r, CallerProc[r], CallerKey[r])
    \/ rebuild_index_for_org(r)

\* One caller creates, patches and deletes notes through process P1 while
\* the other searches and rebuilds through process P2.
NextIndex ==
    \/ CreateNext("r1")
    \/ MutateNext("r1", MaxTenantPatches)
    \/ SearchNext("r2")

SpecIndex == Init /\ [][NextIndex]_vars

SpecTenant == Init /\ [][NextTenant]_vars

\* Three clients of one process that create a note and list the notes, with
\* the api key of T1 or with no credential at all, all within one second.
NextGateway ==
    \/ \E r \in Requests, k \in {"k1", ""} :
          /\ notes = <<>> /\ Inserting = {}
          /\ create_note_org(r, "P1", k, "a", "a")
    \/ \E r \in Requests : create_note_commit(r, "n1")
    \/ \E r \in Requests : create_note_index(r)
    \/ \E r \in Requests, k \in {"k1", ""} : list_notes(r, "P1", k)

SpecGateway == Init /\ [][NextGateway]_vars

\* Callers of RateLimiter.check_rate_limit in any number of processes, each
\* call with a bytes_count of its request, while the seconds pass up to the
\* second `last`.
QuotaNext(callers, byte_counts, calls, last) ==
    \/ \E c \in callers, org \in QuotaOrgs, bytes_count \in byte_counts :
          quota_hist.calls < calls /\ check_rate_limit_now(c, org, bytes_count)
    \/ \E c \in callers : check_rate_limit_requests(c)
    \/ \E c \in callers : check_rate_limit_bytes(c)
    \/ clock < last /\ Tick

\* Calls that carry no bytes, within one window.
NextBucket ==
    \/ \E c \in Limiters, org \in QuotaOrgs :
          quota_hist.calls < MaxCalls /\ check_rate_limit_now(c, org, 0)
    \/ \E c \in Limiters : check_rate_limit_requests(c)
    \/ clock < QuotaWindow - 1 /\ Tick

SpecBucket == Init /\ [][NextBucket]_vars

\* Calls of two callers with and without bytes.
NextQuota == QuotaNext({"c1", "c2"}, {0, MaxBytes}, MaxByteCalls, MaxClock)

SpecQuota == Init /\ [][NextQuota]_vars

\* ------------------------------------------------- properties of sessions

SameNote(s, t) ==
    /\ ws[s].state = "Active" /\ ws[t].state = "Active"
    /\ ws[s].note_id = ws[t].note_id

HasFrame(s, type, version) ==
    \E i \in 1..Len(frames[s]) :
        frames[s][i].type = type /\ frames[s][i].version = version

\* C1: of the patch commits on one note that carry the same expected
\* version, at most one succeeds, whichever processes handle them.
C1_OneCommitPerExpectedVersion ==
    \A i, j \in 1..Len(commit_log) :
        (/\ commit_log[i].note_id = commit_log[j].note_id
         /\ commit_log[i].expected = commit_log[j].expected) => i = j

\* C2: a note's version is at least 1, and every committed patch (REST PATCH
\* or WebSocket patch) leaves the stored version strictly above what it was.
C2_VersionStrictlyIncreases ==
    /\ \A n \in DOMAIN notes : notes[n].version >= 1
    /\ \A i \in 1..Len(commit_log) : commit_log[i].after > commit_log[i].before

\* C3: a WebSocket patch is committed only when the version it carries is
\* the version stored at the moment its UPDATE is applied.
C3_CommitOnlyOnEqualVersion ==
    \A i \in 1..Len(commit_log) :
        commit_log[i].surface = "ws" => commit_log[i].expected = commit_log[i].before

\* C4: once the handler of a committed patch has sent its frames, every
\* session that was open on the note when the patch was committed and is
\* still open, the originating one included, has an update frame carrying
\* the version the commit stored.
C4_EverySessionGetsUpdate ==
    \A i \in 1..Len(commit_log) : \A t \in commit_log[i].open :
        (/\ commit_log[i].surface = "ws"
         /\ ws[commit_log[i].by].pc = "recv"
         /\ ws[t].state = "Active")
        => HasFrame(t, "update", commit_log[i].after)

\* C5: the update frames a session receives carry strictly increasing
\* versions, all above the version of its init frame.
C5_UpdateVersionsIncrease ==
    \A s \in Sessions : \A i, j \in 1..Len(frames[s]) :
        (/\ i < j
         /\ frames[s][i].type \in {"init", "update"}
         /\ frames[s][j].type = "update")
        => frames[s][i].version < frames[s][j].version

\* C6: a patch committed through a session on process P1 leads to an update
\* frame on every session that process P2 holds on the same note.
C6_CrossProcessDelivery ==
    \A s, t \in Sessions :
        (/\ SameNote(s, t)
         /\ ws[s].proc = "P1" /\ ws[t].proc = "P2"
         /\ ws[s].pc = "refresh")
        ~> (\E i \in 1..Len(frames[t]) : frames[t][i].type = "update")

\* Session s's handler takes a patch frame whose patch data can be decoded,
\* for a note that is stored and not deleted, and whose version differs from
\* the stored one.
StalePatchTaken(s) ==
    /\ ws[s].state = "Active" /\ ws[s].pc = "recv"
    /\ inflight[s].type = "patch" /\ inflight'[s] = NoMsg
    /\ DecodeOk(inflight[s].patch)
    /\ LiveNote(ws[s].note_id)
    /\ inflight[s].version # notes[ws[s].note_id].version

\* C7: a patch carrying a version other than the stored one is answered
\* with one VERSION_MISMATCH error frame whose current_version is the stored
\* version, sent to the originating session alone; no other session is sent
\* a frame, nothing is stored or committed, and the session stays Active.
C7_StalePatchRejected ==
    [][\A s \in Sessions : StalePatchTaken(s) =>
          /\ frames'[s] = Append(frames[s],
                ErrorFrame("VERSION_MISMATCH", notes[ws[s].note_id].version))
          /\ \A t \in Sessions \ {s} : frames'[t] = frames[t]
          /\ notes' = notes /\ commit_log' = commit_log
          /\ ws'[s].state = "Active" /\ ws'[s].pc = "recv"]_vars

\* A session was answered VERSION_MISMATCH with the version that another
\* session's commit had stored, while that other session stayed open.
C7_Witness ==
    \E s, t \in Sessions :
        /\ s # t /\ SameNote(s, t)
        /\ Len(frames[s]) = 2 /\ Len(frames[t]) = 2
        /\ frames[s][2] = ErrorFrame("VERSION_MISMATCH", 2)
        /\ frames[t][2].type = "update"
        /\ notes[ws[s].note_id].version = 2

\* ------------------------------------------------- properties of tenants

\* C8: a request is answered with, lists, or is about to modify or has
\* modified, only notes of the organization its credential belongs to.
C8_NoteRoutesTenantScoped ==
    \A r \in Requests :
        /\ (rest[r].op = "get" /\ rest[r].status \in {200, 304})
              => notes[rest[r].note_id].org_id = CredentialOrg(rest[r].api_key)
        /\ (rest[r].op = "list" /\ rest[r].status = 200)
              => \A n \in rest[r].body.listed :
                    notes[n].org_id = CredentialOrg(rest[r].api_key)
        /\ (rest[r].op \in {"patch", "delete"} /\ rest[r].pc \in {"commit", "index"})
              => notes[rest[r].note_id].org_id = CredentialOrg(rest[r].api_key)

\* The note ids of an index all belong to notes of organization org.
OnlyNotesOf(ids, org) ==
    \A i \in 1..Len(ids) : ids[i] \in DOMAIN notes /\ notes[ids[i]].org_id = org

C10_AdmittedOnlyWithTenantCredential ==
    \A s \in Sessions :
        ws[s].state = "Active" =>
            CredentialOrg(ws[s].api_key) = notes[ws[s].note_id].org_id

\* The handler of session s takes a decodable patch while the note of the
\* session is deleted.
PatchTakenOnDeletedNote(s) ==
    /\ ws[s].state = "Active" /\ ws[s].pc = "recv"
    /\ inflight[s].type = "patch" /\ inflight'[s] = NoMsg
    /\ DecodeOk(inflight[s].patch)
    /\ ~LiveNote(ws[s].note_id)

\* C17: a patch that arrives for a note that is deleted is answered with an
\* error frame of code NOT_FOUND, and the session is closed.
C17_PatchOnDeletedNoteCloses ==
    [][\A s \in Sessions : PatchTakenOnDeletedNote(s) =>
          /\ frames'[s] = Append(frames[s], ErrorFrame("NOT_FOUND", 0))
          /\ ws'[s].state = "Closed"]_vars

\* Session s is closed with close code `code` and has been sent no frame.
ClosedUnanswered(s, code) ==
    /\ ws'[s].state = "Closed" /\ ws'[s].close_code = code
    /\ frames'[s] = <<>>

\* C18: the step that opens a session closes it with 1008 when it presents
\* no credential and with 1404 when its note is missing or deleted, sending
\* no frame; otherwise it makes the session Active and sends, as its first
\* frame, the init frame with the stored title, body and version.  No init
\* frame is sent later, and a session that was closed at opening is sent no
\* frame and commits no patch.
C18_InitFirstOrClosed ==
    [][\A s \in Sessions :
          /\ (ws[s].state = "Idle" /\ ws'[s].state # "Idle") =>
                IF ws'[s].api_key = ""
                THEN ClosedUnanswered(s, 1008)
                ELSE IF ~LiveNote(ws'[s].note_id)
                THEN ClosedUnanswered(s, 1404)
                ELSE /\ ws'[s].state = "Active"
                     /\ frames'[s] = <<InitFrame(notes[ws'[s].note_id])>>
          /\ ws[s].state # "Idle" =>
                /\ ws'[s].state # "Idle"
                /\ \/ frames'[s] = frames[s]
                   \/ /\ Len(frames'[s]) = Len(frames[s]) + 1
                      /\ SubSeq(frames'[s], 1, Len(frames[s])) = frames[s]
                      /\ frames'[s][Len(frames'[s])].type # "init"
          /\ (ws[s].state = "Closed" /\ ws[s].close_code \in {1008, 1404}) =>
                /\ frames'[s] = <<>>
                /\ ws'[s] = ws[s]
                /\ \A i \in 1..Len(commit_log') : commit_log'[i].by # s]_vars

\* A session was opened on the stored note and sent a second frame after its
\* init frame, and the other session was closed with 1404 on the deleted note.
C18_Witness ==
    \E s, t \in Sessions :
        /\ ws[s].state = "Active" /\ Len(frames[s]) >= 2
        /\ frames[s][1].type = "init"
        /\ ws[t].state = "Closed" /\ ws[t].close_code = 1404
        /\ "n1" \in DOMAIN notes /\ notes["n1"].deleted

\* Session s has been sent a frame that carries version c: its init frame, an
\* update frame, or a VERSION_MISMATCH error with current_version c.
Observed(s, c) ==
    \E i \in 1..Len(frames[s]) :
        /\ frames[s][i].version = c
        /\ \/ frames[s][i].type \in {"init", "update"}
           \/ frames[s][i].type = "error" /\ frames[s][i].code = "VERSION_MISMATCH"

\* The patch of session s that is on its way is decodable and carries a
\* version the session has observed, which is the stored version.
RefreshedPatchSent(s) ==
    /\ ws[s].state = "Active" /\ ws[s].pc = "recv"
    /\ inflight[s].type = "patch"
    /\ DecodeOk(inflight[s].patch)
    /\ Observed(s, inflight[s].version)
    /\ LiveNote(ws[s].note_id)
    /\ notes[ws[s].note_id].version = inflight[s].version

\* The handler of session s is about to commit and no other commit was made
\* since it read the note.
CommitUncontended(s) ==
    /\ ws[s].state = "Active" /\ ws[s].pc = "commit"
    /\ notes[ws[s].note_id].version = ws[s].expected

\* C19: a patch a session sends with a version it has observed, while that
\* version is the stored one, is taken by the handler, which goes on to
\* commit it; the commit, when no other commit to the note was made first,
\* stores the next version; and both steps are eventually taken.
C19_RefreshedPatchCommits ==
    /\ [][\A s \in Sessions :
            /\ (RefreshedPatchSent(s) /\ inflight'[s] = NoMsg) =>
                  /\ ws'[s].pc = "commit"
                  /\ ws'[s].expected = inflight[s].version
                  /\ frames' = frames
            /\ (CommitUncontended(s) /\ ws'[s].pc # "commit") =>
                  /\ notes'[ws[s].note_id].version = ws[s].expected + 1
                  /\ Len(commit_log') = Len(commit_log) + 1
                  /\ commit_log'[Len(commit_log')].by = s]_vars
    /\ \A s \in Sessions :
          /\ RefreshedPatchSent(s) ~>
                (inflight[s] = NoMsg \/ ~RefreshedPatchSent(s))
          /\ (ws[s].state = "Active" /\ ws[s].pc = "commit") ~> (ws[s].pc # "commit")

\* A session was refused with VERSION_MISMATCH, sent its patch again with the
\* current_version of the error, and its commit stored the next version.
C19_Witness ==
    \E s \in Sessions, i \in 1..Len(commit_log) :
        /\ Len(frames[s]) >= 3
        /\ frames[s][2] = ErrorFrame("VERSION_MISMATCH", 2)
        /\ frames[s][3].type = "update" /\ frames[s][3].version = 3
        /\ commit_log[i].by = s /\ commit_log[i].expected = 2
        /\ commit_log[i].after = 3

\* ---------------------------------------------------- properties of requests

\* The operations of the REST routes.
RestOps == {"create", "get", "list", "patch", "delete", "search", "rebuild"}

\* C11: a REST request that presents no credential is answered 401 before
\* its route does anything: it is never inside a route, and its response is
\* 401.
C11_NoCredentialUnauthenticated ==
    \A r \in Requests :
        (rest[r].op \in RestOps /\ rest[r].api_key = "") =>
            rest[r].pc = "idle" /\ rest[r].status = 401

\* C16: of three GET /v1/notes requests made within one second with the key
\* of one tenant, whose capacity is 2 requests per minute, at most two are
\* answered 200.
C16_ThirdRapidListRefused ==
    Cardinality({r \in Requests : /\ rest[r].op = "list"
                                  /\ rest[r].api_key = "k1"
                                  /\ rest[r].pc = "idle"
                                  /\ rest[r].status = 200}) <= 2

\* DELETE /v1/notes/n has been answered 200.
DeleteAnswered(n) ==
    \E d \in Requests : /\ rest[d].op = "delete" /\ rest[d].note_id = n
                         /\ rest[d].pc = "idle" /\ rest[d].status = 200

\* The notes the response of request r names.
Surfaced(req) ==
    {req.body.results[i].note_id : i \in 1..Len(req.body.results)}
        \cup req.body.listed
        \cup (IF req.op = "get" /\ req.status = 200 THEN {req.body.note_id} ELSE {})

C13_DeletedNoteNotEdited ==
    [][\A n \in DOMAIN notes :
          notes[n].deleted =>
              /\ notes'[n].title = notes[n].title
              /\ notes'[n].content_md = notes[n].content_md
              /\ notes'[n].version = notes[n].version]_vars

\* Request r is answered 200 to a PATCH in this step.
PatchAnswered(r) ==
    /\ rest'[r] # rest[r]
    /\ rest'[r].op = "patch" /\ rest'[r].pc = "idle" /\ rest'[r].status = 200

\* The version the note had when the PATCH of request r selected it.
VersionSelected(r) ==
    IF rest[r].pc = "idle" THEN notes[rest'[r].note_id].version
    ELSE rest[r].loaded.version

\* The request slots that hold a 200 response to a PATCH.
PatchesAnswered ==
    {r \in Requests : rest[r].op = "patch" /\ rest[r].pc = "idle" /\ rest[r].status = 200}

\* C20: a PATCH that is answered 200 returns the version it found plus one,
\* which is then the stored version; and with PATCH requests the only
\* writers, the stored version is at least the version the note was created
\* with plus the number of PATCH requests that hold a 200 response.
C20_PatchIncrementsByOne ==
    /\ [][\A r \in Requests : PatchAnswered(r) =>
              /\ rest'[r].body.version = VersionSelected(r) + 1
              /\ notes'[rest'[r].note_id].version = VersionSelected(r) + 1]_vars
    /\ [](\A n \in DOMAIN notes :
              notes[n].version >= 1 + Cardinality({r \in PatchesAnswered : rest[r].note_id = n}))

\* ------------------------------------------------------ properties of quotas

\* C14: of the try_consume(requests=1) calls issued after the request bucket
\* was left empty and run within the refill window that began then, at most
\* as many as the capacity are allowed.
C14_NoDoubleSpend == quota_hist.grants <= RequestsPerMinute

\* C15: a call of check_rate_limit is allowed only if both scripts allowed
\* it, and a call that is refused has consumed from neither bucket.
C15_RefusedCallConsumesNothing ==
    \A c \in Limiters :
        limiter[c].pc = "done" =>
            /\ limiter[c].allowed = "allowed" =>
                  /\ limiter[c].took_req = 1
                  /\ limiter[c].took_bytes = limiter[c].bytes_count
            /\ limiter[c].allowed = "limited" =>
                  /\ limiter[c].took_req = 0
                  /\ limiter[c].took_bytes = 0

\* ------------------------------------------------------- patch merge (C21)

\* Patches of both surfaces that carry a title, among them the title the
\* note was created with, or only a body.
MergePatches ==
    {PatchData("json", "a", Absent), PatchData("json", "b", Absent),
     PatchData("json", Absent, "b")}

\* One streaming client and one PATCH caller that write note n1.
NextMerge ==
    \/ CreateOneNote
    \/ WsNext({"s1"}, OwnProc, {"k1"},
              {PatchData("json", "a", Absent), PatchData("json", "b", Absent)},
              MaxSends, MaxVersion)
    \/ RestEditNext({"r1"}, MergePatches, MaxCommits)

SpecMerge == Init /\ [][NextMerge]_vars

\* The patch of the handler that made the last entry of the commit log, read
\* in the state before its commit.
CommittedPatch(c) ==
    IF c.surface = "rest" THEN rest[c.by].patch ELSE ws[c.by].patch

\* The stored row r2 is the stored row r1 merged with patch p: a carried
\* member has the patch's value, an absent member the value of r1.
MergedFrom(r1, r2, p) ==
    /\ r2.title = (IF p.title # Absent THEN p.title ELSE r1.title)
    /\ r2.content_md = (IF p.content_md # Absent THEN p.content_md ELSE r1.content_md)

\* An absent member of the committed patch keeps the stored value.
AbsentKept(r1, r2, p) ==
    /\ p.title = Absent => r2.title = r1.title
    /\ p.content_md = Absent => r2.content_md = r1.content_md

\* C21: every commit of a patch, by REST PATCH or by a streaming handler,
\* leaves the stored note with the patch's value in each member the patch
\* carries and with the value stored at commit time in each member it omits.
C21_PatchOverwritesPresentKeepsAbsent ==
    [][Len(commit_log') = Len(commit_log) + 1 =>
        LET c == commit_log'[Len(commit_log')] IN
        MergedFrom(notes[c.note_id], notes'[c.note_id], CommittedPatch(c))]_vars

\* The part of the merge that every commit keeps: a member the patch omits keeps the stored value.
AbsentMemberKept ==
    [][Len(commit_log') = Len(commit_log) + 1 =>
        LET c == commit_log'[Len(commit_log')] IN
        AbsentKept(notes[c.note_id], notes'[c.note_id], CommittedPatch(c))]_vars

\* A handler stands before the commit of a patch that carries a title
\* while the stored title is no longer the one it loaded.
CarriedTitleNotStored ==
    \/ \E r \in Callers :
        /\ rest[r].op = "patch" /\ rest[r].pc = "commit"
        /\ rest[r].patch.title = rest[r].loaded.title
        /\ notes[rest[r].note_id].title # rest[r].loaded.title
    \/ \E s \in Sessions :
        /\ ws[s].state = "Active" /\ ws[s].pc = "commit"
        /\ ws[s].patch.title = ws[s].loaded.title
        /\ notes[ws[s].note_id].title # ws[s].loaded.title

\* ---------------------------------------------------- conditional GET (C22)

\* If-None-Match headers of the callers: none, the weak tag of a version the
\* note has, had or will have, the strong tag of the same text, and "*".
IfNoneMatchValues ==
    {NoHeader, <<"*", 0>>}
        \cup {ETag(v) : v \in 1..(MaxVersion + 1)}
        \cup {<<"", v>> : v \in 1..(MaxVersion + 1)}

\* Note n1 is created, patched by r1 and deleted by r2 while request slot r3
\* reads both note ids with every header.
NextConditional ==
    \/ CreateOneNote
    \/ DeleteOneNote
    \/ RestEditNext({"r1"}, {PatchData("json", "b", Absent)}, MaxVersion)
    \/ \E p \in Procs, n \in NoteIds, h \in IfNoneMatchValues :
          get_note("r3", p, "k1", n, h)

SpecConditional == Init /\ [][NextConditional]_vars

\* Request slot r has just been answered a GET.
GetAnswered(r) == rest'[r] # rest[r] /\ rest'[r].op = "get" /\ rest'[r].pc = "idle"

\* C22: a GET of a stored, non-deleted note is answered with the ETag
\* W/"<stored version>", with 304 exactly when If-None-Match is that tag and
\* with 200 and the note otherwise; a GET of a missing or deleted note is
\* answered 404 whatever the header.
C22_ConditionalGet ==
    [][\A r \in Requests : GetAnswered(r) =>
        LET q == rest'[r]
            n == q.note_id
        IN  IF n \in DOMAIN notes /\ ~notes[n].deleted
            THEN /\ q.body.etag = ETag(notes[n].version)
                 /\ q.status = 304 <=> q.if_none_match = ETag(notes[n].version)
                 /\ q.status # 304 =>
                        /\ q.status = 200
                        /\ q.body.note_id = n
                        /\ q.body.version = notes[n].version
                        /\ q.body.title = notes[n].title
                        /\ q.body.content_md = notes[n].content_md
            ELSE q.status = 404]_vars

\* What holds of get_note: without a matching If-None-Match the note is
\* answered 200 with its ETag, and a missing or deleted note 404.
UnconditionalGet ==
    [][\A r \in Requests : GetAnswered(r) =>
        LET q == rest'[r]
            n == q.note_id
        IN  IF n \in DOMAIN notes /\ ~notes[n].deleted
            THEN q.if_none_match # ETag(notes[n].version) =>
                    /\ q.status = 200
                    /\ q.body.etag = ETag(notes[n].version)
                    /\ q.body.version = notes[n].version
            ELSE q.status = 404]_vars

\* ------------------------------------------- authentication gates (C23, C24)

\* Calls of one caller with every pair of credentials at both gates while
\* the seconds pass.
NextGate ==
    \/ \E token \in GateTokens, api_key \in GateKeys :
          get_current_user("r1", token, api_key)
    \/ \E token \in GateTokens, api_key \in GateKeys :
          authenticate("r1", token, api_key)
    \/ clock < MaxClock /\ Tick

SpecGate == Init /\ [][NextGate]_vars

\* The users a bearer token names.
TokenUsers(token) == {u \in UserRows : token[1] = "jwt" /\ u.user_id = token[2]}

\* C23: a call that presents both a bearer token and an API key is resolved
\* from the bearer token at either gate: it is authenticated as the token's
\* user and that user's tenant when the token names a stored user, and
\* refused otherwise, whatever the API key is.
C23_BearerTokenTakesPrecedence ==
    \A c \in Callers :
        LET g == gate[c] IN
        (g.surface # "none" /\ g.token # NoToken /\ g.api_key # "") =>
            IF TokenUsers(g.token) = {} THEN ~g.outcome.authenticated
            ELSE /\ g.outcome.authenticated
                 /\ \E u \in TokenUsers(g.token) :
                        g.outcome.user_id = u.user_id /\ g.outcome.org_id = u.org_id

\* The stored keys an API key matches that are unexpired at second `at` and
\* whose tenant has an owner.
UsableKeys(api_key, at) ==
    {k \in ApiKeyRows : /\ k.hash = hash_api_key(api_key)
                        /\ ~key_expired(k, at)
                        /\ Owners(k.org_id) # {}}

\* C24: a call that presents only an API key is authenticated exactly when
\* the key's digest is stored, unexpired and of a tenant with an owner, and
\* then as that owner and tenant; an unknown or expired key and a key of a
\* tenant without owner are refused.
C24_ApiKeyOnly ==
    \A c \in Callers :
        LET g == gate[c] IN
        (g.surface # "none" /\ g.token = NoToken /\ g.api_key # "") =>
            /\ g.outcome.authenticated <=> UsableKeys(g.api_key, g.at) # {}
            /\ g.outcome.authenticated =>
                  \E k \in UsableKeys(g.api_key, g.at) :
                      /\ g.outcome.org_id = k.org_id
                      /\ g.outcome.user_id \in Owners(k.org_id)

\* What holds at the REST gate: with a bearer token that names a stored user
\* and a stored, unexpired API key, the principal is the token's.
ValidPairResolvedFromToken ==
    \A c \in Callers :
        LET g == gate[c] IN
        (g.surface = "rest" /\ TokenUsers(g.token) # {}
            /\ \E k \in ApiKeyRows : k.hash = hash_api_key(g.api_key) /\ ~key_expired(k, g.at)) =>
            /\ g.outcome.authenticated
            /\ \E u \in TokenUsers(g.token) :
                   g.outcome.user_id = u.user_id /\ g.outcome.org_id = u.org_id

\* --------------------------------------------------- tenant quotas (C25)

\* REST requests of users of T1 and T2 pass the dependency check_rate_limit,
\* with and without a body, while the seconds pass.
NextCustom ==
    \/ \E token \in {NoToken, Jwt("u1"), Jwt("u2")}, bytes_count \in {0, 1} :
          quota_hist.calls < MaxByteCalls /\ check_rate_limit("c1", token, "", bytes_count)
    \/ check_rate_limit_requests("c1")
    \/ check_rate_limit_bytes("c1")
    \/ clock < MaxClock /\ Tick

SpecCustom == Init /\ [][NextCustom]_vars

\* The value the quota record of an organization states for a limit, or the
\* default when it states none.
StoredLimit(org_id, key, default) == Get(quota_json(org_id).value, key, default)

\* C25: a request of a tenant is charged against buckets whose capacity is
\* the requests-per-minute and bytes-per-minute value of the tenant's stored
\* quota record; the default applies only to a value the record leaves out.
C25_StoredQuotaIsCapacity ==
    [][\A c \in Limiters :
        LET l == limiter[c] IN
        /\ (l.pc = "req" /\ limiter'[c].pc # "req") =>
              redis'[<<l.org_id, "req">>] =
                 RATE_LIMIT_SCRIPT(redis[<<l.org_id, "req">>], clock, l.now, QuotaWindow,
                     StoredLimit(l.org_id, "requests_per_minute", RequestsPerMinute),
                     1).bucket
        /\ (l.pc = "bytes" /\ limiter'[c].pc # "bytes") =>
              redis'[<<l.org_id, "bytes">>] =
                 RATE_LIMIT_SCRIPT(redis[<<l.org_id, "bytes">>], clock, l.now, QuotaWindow,
                     StoredLimit(l.org_id, "bytes_per_minute", BytesPerMinute),
                     l.bytes_count).bucket]_vars

\* What holds: the limits a quota record leaves out are the defaults, and a
\* record stored as the text of an object is enforced.
UnstatedLimitIsDefault ==
    [][\A c \in Limiters :
        LET l == limiter[c] IN
        /\ (l.pc = "req" /\ limiter'[c].pc # "req"
                /\ "requests_per_minute" \notin DOMAIN quota_json(l.org_id).value) =>
              redis'[<<l.org_id, "req">>] =
                 RATE_LIMIT_SCRIPT(redis[<<l.org_id, "req">>], clock, l.now, QuotaWindow,
                     RequestsPerMinute, 1).bucket
        /\ (l.pc = "bytes" /\ limiter'[c].pc # "bytes" /\ l.org_id = "T2") =>
              redis'[<<l.org_id, "bytes">>] =
                 RATE_LIMIT_SCRIPT(redis[<<l.org_id, "bytes">>], clock, l.now, QuotaWindow,
                     1, l.bytes_count).bucket]_vars

\* ------------------------------------------------ index under threads (C26)

\* The vectors the threads pass to add_note.
ThreadEmbeddings == {<<3, 0>>, <<0, -2>>}

\* Two threads call add_note and remove_note of one index in any order.
NextThreads ==
    \E t \in Threads :
        \/ \E op \in {"add_note", "remove_note"}, n \in NoteIds, v \in ThreadEmbeddings :
              (op = "remove_note" => v = <<3, 0>>) /\ lock_acquire(t, op, n, v)
        \/ note_id_check(t)
        \/ del_note_ids(t)
        \/ del_embeddings(t)
        \/ append_note_ids(t)
        \/ append_embeddings(t)
        \/ _save_index(t)
        \/ lock_release(t)

SpecThreads == Init /\ [][NextThreads]_vars

\* C26: whenever no thread is inside add_note or remove_note, every note id
\* occurs at most once in the index, the id list and the vector list have
\* the same length, every id has at its position the vector of the last
\* add_note made for it, and an id removed last is not in the index.
C26_IndexConsistentUnderThreads ==
    (\A t \in Threads : threads[t].pc = "idle") =>
        LET ids == SharedIndex.note_ids
            vecs == SharedIndex.embeddings
        IN  /\ \A i, j \in 1..Len(ids) : ids[i] = ids[j] => i = j
            /\ Len(ids) = Len(vecs)
            /\ \A i \in 1..Len(ids) : vecs[i] = added[ids[i]]
            /\ \A n \in NoteIds :
                  added[n] # NoVector <=> \E i \in 1..Len(ids) : ids[i] = n

\* C26: both notes were added by different threads, n1 was added again with
\* another vector, and the index holds n2 before n1 with the new vector.
C26_Witness ==
    /\ \A t \in Threads : threads[t].pc = "idle"
    /\ SharedIndex.note_ids = <<"n2", "n1">>
    /\ SharedIndex.embeddings = <<<<100, 0>>, <<0, -100>>>>
    /\ snapshots["T1"] = SharedIndex

\* ------------------------------------------------------ index rebuild (C27)

\* One process serves a caller that creates, patches and deletes notes, a
\* caller that rebuilds the index and a caller that searches.
NextRebuild ==
    \/ CreateNext("r1")
    \/ MutateNext("r1", MaxTenantPatches)
    \/ rebuild_index_select("r2", "P1", "k1")
    \/ rebuild_index_for_org("r2")
    \/ \E top_k \in 1..MaxTopK : search("r3", "P1", "k1", "a", top_k)

SpecRebuild == Init /\ [][NextRebuild]_vars

\* Request slot r replaces the index in this step.
Rebuilds(r) ==
    rest[r].op = "rebuild" /\ rest[r].pc = "rebuild" /\ rest'[r].pc = "idle"

\* The note ids an index holds.
IndexedIds(idx) == {idx.note_ids[i] : i \in 1..Len(idx.note_ids)}

\* The stored notes of an organization that are not deleted.
LiveNotes(org) == {n \in DOMAIN notes : notes[n].org_id = org /\ ~notes[n].deleted}

\* C27: a rebuild replaces the in-memory index of the tenant in one piece,
\* and what the other requests of the process did to the index while it ran
\* is kept: a live note that was in the index is in the rebuilt index, and
\* the rebuilt index holds no note that was deleted and taken out.
C27_RebuildLosesNoChange ==
    [][\A r \in Requests : Rebuilds(r) =>
        LET before == IndexedIds(index_registry[rest[r].proc][rest[r].org_id])
            after == IndexedIds(index_registry'[rest[r].proc][rest[r].org_id])
            live == LiveNotes(rest[r].org_id)
        IN  /\ \A n \in before \cap live : n \in after
            /\ \A n \in after : n \in live \/ n \in before]_vars

\* What holds: the rebuilt index holds exactly the notes the rebuild
\* selected, each once and with its vector.
RebuildIsSelection ==
    [][\A r \in Requests : Rebuilds(r) =>
        LET after == index_registry'[rest[r].proc][rest[r].org_id] IN
        /\ IndexedIds(after) = DOMAIN rest[r].selected
        /\ Len(after.note_ids) = Cardinality(DOMAIN rest[r].selected)
        /\ Len(after.embeddings) = Len(after.note_ids)]_vars

\* ------------------------------------------- index after streaming patch (C28)

\* The handler of session s has committed its patch and sends the update in
\* this step.
PatchUpdated(s) ==
    ws[s].state = "Active" /\ ws[s].pc = "refresh" /\ ws'[s].pc = "recv"

\* The index holds note n with the vector of the text of row.
IndexedAs(idx, n, row) ==
    /\ IndexOf(idx.note_ids, n) # 0
    /\ IndexOf(idx.note_ids, n) <= Len(idx.embeddings)
    /\ idx.embeddings[IndexOf(idx.note_ids, n)] =
          _normalize_embedding(text_to_embedding(NoteText(row.title, row.content_md)))

\* C28: when a streaming handler has committed a patch and sent its update,
\* the tenant's index in its process holds the note with the vector of the
\* title and body the handler committed.
C28_StreamingPatchReindexes ==
    [][\A s \in Sessions : PatchUpdated(s) =>
        IndexedAs(index_registry'[ws[s].proc][ws[s].modified.org_id],
                  ws[s].note_id, ws[s].modified)]_vars

\* ------------------------------------------------- index search (C29, C30)

\* Unit vectors the notes are stored with and vectors the index is queried
\* with (the second is normalized by search).
SearchEmbeddings == {<<100, 0>>, <<-100, 0>>, <<-60, 80>>, <<60, 80>>}
QueryEmbeddings == {<<3, 0>>, <<60, 80>>}

\* One thread adds and removes notes and searches the index, with and
\* without FAISS, for up to MaxTopK + 1 results.
NextSearch ==
    \/ \E op \in {"add_note", "remove_note"}, n \in NoteIds, v \in SearchEmbeddings :
          (op = "remove_note" => v = <<100, 0>>) /\ lock_acquire("t1", op, n, v)
    \/ note_id_check("t1")
    \/ del_note_ids("t1")
    \/ del_embeddings("t1")
    \/ append_note_ids("t1")
    \/ append_embeddings("t1")
    \/ _save_index("t1")
    \/ lock_release("t1")
    \/ \E q \in QueryEmbeddings, top_k \in 1..(MaxTopK + 1), faiss \in BOOLEAN :
          NoteVectorIndex_search("t1", q, top_k, faiss)

SpecSearch == Init /\ [][NextSearch]_vars

\* Thread t returns from search in this step.
Searched(t) == threads'[t].op = "search" /\ threads'[t] # threads[t]

\* The results r of a search on the id list ids are at most min(k, size),
\* in non-increasing similarity, equal similarities in insertion order.
Ordered(r, ids, k) ==
    /\ Len(r) <= Min(k, Len(ids))
    /\ \A i \in 1..(Len(r) - 1) : r[i].score >= r[i + 1].score
    /\ \A i \in 1..(Len(r) - 1) :
          r[i].score = r[i + 1].score =>
              IndexOf(ids, r[i].note_id) < IndexOf(ids, r[i + 1].note_id)

\* C29: every search of an index, for k >= 1, returns at most min(k, size)
\* results in non-increasing similarity, results of equal similarity in
\* insertion order, the older first.
C29_SearchOrdered ==
    [][\A t \in Threads : Searched(t) =>
        Ordered(threads'[t].results, SharedIndex'.note_ids, threads'[t].top_k)]_vars

\* What holds: without FAISS every search is ordered so.
BruteForceOrdered ==
    [][\A t \in Threads : (Searched(t) /\ ~threads'[t].faiss) =>
        Ordered(threads'[t].results, SharedIndex'.note_ids, threads'[t].top_k)]_vars

\* C30: every similarity a search returns lies in [0, 1] (0..10000 in the
\* model's scale), with and without FAISS.
C30_SimilarityInUnitInterval ==
    \A t \in Threads :
        \A i \in 1..Len(threads[t].results) :
            threads[t].results[i].score >= 0 /\ threads[t].results[i].score <= 10000

\* What holds: with FAISS every similarity lies in [0, 1].
FaissSimilarityInUnitInterval ==
    \A t \in Threads :
        threads[t].faiss =>
            \A i \in 1..Len(threads[t].results) :
                threads[t].results[i].score >= 0 /\ threads[t].results[i].score <= 10000

\* A search with FAISS whose two results are at different distances from the
\* query, both beyond the distance at which the similarity is cut to 0: the
\* nearer note, added last, is returned first with the same similarity.
FaissClampedTie ==
    /\ threads["t1"].op = "search" /\ threads["t1"].faiss
    /\ threads["t1"].embedding = <<3, 0>>
    /\ SharedIndex.note_ids = <<"n1", "n2">>
    /\ SharedIndex.embeddings = <<<<-100, 0>>, <<-60, 80>>>>
    /\ threads["t1"].results =
          <<[note_id |-> "n2", score |-> 0], [note_id |-> "n1", score |-> 0]>>

\* ------------------------------------------------ index persistence (C31)

\* NoteVectorIndex(org_id) built anew: __init__ starts with empty lists and
\* _load_index replaces them with the lists of the pickled dict when the
\* snapshot file of the organization exists.
_load_index(org) ==
    IF snapshots[org].loaded
    THEN [EmptyIndex EXCEPT !.note_ids = snapshots[org].note_ids,
                            !.embeddings = snapshots[org].embeddings]
    ELSE EmptyIndex

NextCleanup ==
    \/ CreateOneNote
    \/ ManagedNext(Sessions, OwnProc, {"k1", ""}, {PatchData("json", "b", Absent)},
                   1, MaxVersion)
    \/ \E s \in Sessions, close_code \in {1011, 0} :
          handle_websocket_connection_exit(s, close_code)
    \/ \E s \in Sessions, p \in Procs : connect(s, p, "n1")
    \/ \E s \in Sessions : manager_disconnect(s)
    \/ \E s \in Sessions : _subscribe_to_note_subscribe(s)
    \/ \E s \in Sessions : _subscribe_to_note_listen(s)
    \/ \E s \in Sessions : _subscribe_to_note_resume(s)
    \/ \E q \in Procs : broadcast_to_note(q, "n1")

\* The event loop of each process runs a handler or a task that can take a
\* step; nothing obliges anyone to publish.
SpecCleanup ==
    /\ Init /\ [][NextCleanup]_vars
    /\ \A s \in Sessions :
          /\ WF_vars(ManagedStep(s, MaxVersion))
          /\ WF_vars(_subscribe_to_note_subscribe(s))
          /\ WF_vars(_subscribe_to_note_listen(s))
          /\ WF_vars(_subscribe_to_note_resume(s))

\* The session has left: its handler returned or manager.disconnect was
\* called for it.
Left(s) == ws[s].state = "Closed" /\ ws[s].handler \in {"managed", "manager"}

\* After a session has left, manager.disconnect has run once for it, no list
\* and no connection_details entry of its process holds it, and no key of
\* active_connections maps to an empty list.
RegistryCleanOnExit ==
    /\ \A s \in Sessions : Left(s) =>
          /\ pubsub[s].disconnects = 1
          /\ s \notin connection_details[ws[s].proc]
          /\ \A n \in NoteIds :
                \A i \in 1..Len(active_connections[ws[s].proc][n]) :
                    active_connections[ws[s].proc][n][i] # s
    /\ \A p \in Procs : \A n \in active_keys[p] : active_connections[p][n] # <<>>

\* A session that has left has no subscription, or loses it in the end.
SubscriptionDropped ==
    \A s \in Sessions :
        Left(s) ~> pubsub[s].task \in {"none", "unsubscribed"}

\* C32: on every exit path of a session cleanup runs exactly once, the
\* session is afterwards in no list of the registry, no note id is mapped to
\* an empty list, and the subscription of the session is dropped in the end.
C32_CleanupOnEveryExit ==
    /\ []RegistryCleanOnExit
    /\ \A s \in Sessions :
          [](Left(s) => <>(pubsub[s].task \in {"none", "unsubscribed"}))

\* A session registered through manager.connect has left while its task was
\* subscribed, and the subscription is still there.
LeftSubscribed ==
    \E s \in Sessions : Left(s) /\ pubsub[s].task = "listening" /\ pubsub[s].pending = <<>>

\* Of two sessions of one process on the note one has left: the key stays.
KeyKeptForTheOther ==
    \E s, t \in Sessions :
        /\ Left(s) /\ ws[t].state = "Active" /\ ws[t].proc = ws[s].proc
        /\ "n1" \in active_keys[ws[s].proc]

\* --------------------------------------------------- slow consumer (C33)

\* Both sessions are served by process P1, so that each is sent the updates
\* of the other.
SameProc == [s \in Sessions |-> {"P1"}]

\* Two sessions of one process on note n1 whose clients send patches and may
\* stop reading; the event loop runs a handler that can take a step.
NextSlow ==
    \/ CreateOneNote
    \/ ManagedNext(Sessions, SameProc, {"k1"}, {PatchData("json", "b", Absent)},
                   MaxSends, MaxVersion)
    \/ \E s \in Sessions : ClientStall(s)

SpecSlow ==
    /\ Init /\ [][NextSlow]_vars
    /\ \A s \in Sessions : WF_vars(ManagedStep(s, MaxVersion))

\* The handler of session s has committed a patch and has not yet gone back
\* to receive_json.
Publishing(s) == ws[s].state = "Active" /\ ws[s].pc = "refresh"

\* C33: a session that has committed a patch goes back to receiving whatever
\* the other sessions do with the update they are sent: a session that does
\* not take it is closed with SLOW_CONSUMER instead of holding the sender.
C33_SlowConsumerDoesNotBlock ==
    \A s \in Sessions : Publishing(s) ~> ~Publishing(s)

\* While every client reads, a session that has committed goes back to
\* receiving.
PublisherReturnsWhenAllRead ==
    \A s \in Sessions :
        Publishing(s) ~> (~Publishing(s) \/ \E t \in Sessions : ~ws[t].reading)

\* The committing handler is suspended in the send to a session that does
\* not read.
HeldBySlowConsumer ==
    \E s \in Sessions :
        /\ Publishing(s)
        /\ \E t \in managed_update_recipients(s) : ~send_json_returns(t)

\* ---------------------------------------------- undecodable patches (C34)

\* The patch data clients send: absent, undecodable text, a new title.
BadPatches == {NoPatch, GarbagePatch, PatchData("json", "b", Absent)}

\* Session s1 is served by simple_websocket_handler and session s2 by
\* handle_websocket_connection, both on note n1.
NextBadPatch ==
    \/ CreateOneNote
    \/ WsNext({"s1"}, OwnProc, {"k1"}, BadPatches, MaxSends + 1, MaxVersion)
    \/ ManagedNext({"s2"}, OwnProc, {"k1"}, BadPatches, MaxSends + 1, MaxVersion)

SpecBadPatch == Init /\ [][NextBadPatch]_vars

\* The handler of session s takes a patch frame from its socket whose patch
\* data is missing or cannot be decoded.
TakesBadPatch(s) ==
    /\ ws[s].state = "Active"
    /\ inflight[s].type = "patch"
    /\ ~DecodeOk(inflight[s].patch)
    /\ inflight'[s] = NoMsg

\* The answer the claim describes: one error frame more for the sender,
\* nothing for the others, the note table as it was, and the handler of the
\* open session back at receive_json with no commit under way.
RejectedInPlace(s) ==
    /\ Len(frames'[s]) = Len(frames[s]) + 1
    /\ frames'[s][Len(frames'[s])].type = "error"
    /\ \A t \in Sessions \ {s} : frames'[t] = frames[t]
    /\ notes' = notes
    /\ ws'[s].state = "Active"
    /\ ws'[s].pc = "recv"

\* C34: a patch frame whose patch data is missing or cannot be decoded is
\* answered with an error frame to its sender, changes neither title, body
\* nor version of the note, sends nothing to other sessions and leaves the
\* session open and receiving.
C34_BadPatchRejected ==
    [][\A s \in Sessions : TakesBadPatch(s) => RejectedInPlace(s)]_vars

\* The same for the sessions simple_websocket_handler serves.
SimpleHandlerRejectsBadPatch ==
    [][\A s \in Sessions :
          TakesBadPatch(s) /\ ws[s].handler = "simple" => RejectedInPlace(s)]_vars

\* handle_websocket_connection has committed a patch that could not be
\* decoded: the version went up and the content stayed.
UndecodablePatchCommitted ==
    \E i \in 1..Len(commit_log) :
        /\ commit_log[i].surface = "ws"
        /\ ~DecodeOk(ws[commit_log[i].by].patch)
        /\ ws[commit_log[i].by].pc = "refresh"
        /\ commit_log[i].after = commit_log[i].before + 1

\* ------------------------------------------------------ soft delete (C35)

\* Note n1 is created and patched through request slot r1 and deleted
\* through DELETE /v1/notes/n1 requests of the slots r2 and r3.
NextDelete ==
    \/ CreateOneNote
    \/ RestEditNext({"r1"}, {PatchData("json", "b", Absent)}, 1)
    \/ \E r \in {"r2", "r3"} :
          \/ delete_note_select(r, "P1", "k1", "n1")
          \/ delete_note_commit(r)
          \/ delete_note_index(r)
          \/ delete_note_reload_refused(r)

SpecDelete == Init /\ [][NextDelete]_vars

\* Request slot r takes a DELETE for a note whose row carries the deletion
\* flag already.
DeletesAgain(r) ==
    /\ rest[r].pc = "idle" /\ rest'[r] # rest[r] /\ rest'[r].op = "delete"
    /\ rest'[r].note_id \in DOMAIN notes
    /\ notes[rest'[r].note_id].deleted

\* The commit of a DELETE.
DeleteCommits(r) == rest[r].op = "delete" /\ rest[r].pc = "commit" /\ rest'[r].pc = "index"

\* A DELETE that has committed is answered.
DeleteResponds(r) == rest[r].op = "delete" /\ rest[r].pc = "index" /\ rest'[r].pc = "idle"

\* The row after the commit of a DELETE is the row before it with the
\* deletion flag set, and a DELETE of a deleted note is answered 404 and
\* changes no row.
SoftDeleteKeepsRow ==
    [][\A r \in Requests :
          /\ DeleteCommits(r) =>
                notes' = [notes EXCEPT ![rest[r].note_id].deleted = TRUE]
          /\ DeletesAgain(r) =>
                rest'[r].pc = "idle" /\ rest'[r].status = 404 /\ notes' = notes]_vars

\* C35: the soft delete of a stored note is answered Ok and a soft delete of
\* a note already deleted NotFound; after either the row is still there with
\* the deletion flag set and the title, body and version it had before.
C35_SoftDeleteIdempotent ==
    [][\A r \in Requests :
          /\ DeleteCommits(r) =>
                notes' = [notes EXCEPT ![rest[r].note_id].deleted = TRUE]
          /\ DeleteResponds(r) => rest'[r].status = 200 /\ notes' = notes
          /\ DeletesAgain(r) =>
                rest'[r].pc = "idle" /\ rest'[r].status = 404 /\ notes' = notes]_vars

\* A DELETE has set the deletion flag of the patched note and was answered
\* with a server error.
DeletedAndRefused ==
    /\ "n1" \in DOMAIN notes /\ notes["n1"].deleted /\ notes["n1"].version = 2
    /\ \E r \in Requests : rest[r].op = "delete" /\ rest[r].pc = "idle" /\ rest[r].status = 500

\* A second DELETE was answered 404 after a first was answered 200.
SecondDeleteNotFound ==
    /\ rest["r2"].op = "delete" /\ rest["r2"].pc = "idle" /\ rest["r2"].status = 200
    /\ rest["r3"].op = "delete" /\ rest["r3"].pc = "idle" /\ rest["r3"].status = 404

\* --------------------------------------------- versions and content (C36)

\* Two sessions of two processes edit note n1 over /ws/notes/n1 while request
\* slot r2 reads it with GET /v1/notes/n1.
NextObserve ==
    \/ CreateOneNote
    \/ WsNext(Sessions, OwnProc, {"k1"}, EditPatches, 1, MaxVersion)
    \/ \E p \in Procs : get_note("r2", p, "k1", "n1", NoHeader)

SpecObserve == Init /\ [][NextObserve]_vars

\* What a frame or a response says of the note.
Observation(version, title, content_md) ==
    [version |-> version, title |-> title, content_md |-> content_md]

\* What the clients have seen of note n1: the version, title and body of
\* every init and update frame sent and of every GET response held.
VersionObservations ==
    UNION {{Observation(frames[s][i].version, frames[s][i].title, frames[s][i].content_md) :
                i \in {j \in 1..Len(frames[s]) : frames[s][j].type \in {"init", "update"}}} :
           s \in Sessions}
    \cup
    {Observation(rest[r].body.version, rest[r].body.title, rest[r].body.content_md) :
        r \in {q \in Requests : rest[q].op = "get" /\ rest[q].pc = "idle"
                                /\ rest[q].status = 200}}

\* C36: any two observations of the note that carry the same version carry
\* the same title and the same body.
C36_VersionIdentifiesContent ==
    \A a, b \in VersionObservations : a.version = b.version => a = b

\* While one session edits, a version is seen with one content only.
OneWriterVersionIdentifiesContent ==
    (ws["s2"].sent = 0) => C36_VersionIdentifiesContent

\* A GET response and an update frame carry version 2 with different bodies.
SameVersionTwoContents ==
    \E a, b \in VersionObservations :
        a.version = 2 /\ b.version = 2 /\ a.content_md # b.content_md

\* ------------------------------------------- the token bucket (C37 - C39)

\* Invocations of the script on one key with the capacity BytesPerMinute,
\* for 1 to MaxRequested tokens, while the seconds pass and the key expires.
NextScript ==
    \/ \E requested \in 1..MaxRequested :
          rate_limit_script(clock, BytesPerMinute, requested)
    \/ clock < MaxScriptClock /\ Tick

SpecScript == Init /\ [][NextScript]_vars

\* C37: the token count stored under the key is between 0 and the capacity,
\* and an invocation that requests more than the capacity is not allowed.
C37_TokensWithinCapacity ==
    /\ redis[ScriptKey].exists =>
          redis[ScriptKey].tokens >= 0 /\ redis[ScriptKey].tokens <= BytesPerMinute
    /\ (quota_hist.last.made /\ quota_hist.last.requested > BytesPerMinute) =>
          quota_hist.last.retry_after > 0

\* C37: the bucket was emptied, refilled in part, and an invocation for more
\* than the capacity was then refused and left the count as it was.
C37_Witness ==
    /\ quota_hist.last.made
    /\ quota_hist.last.requested = BytesPerMinute + 1
    /\ quota_hist.last.retry_after > 0
    /\ redis[ScriptKey].exists /\ redis[ScriptKey].tokens = 0
    /\ quota_hist.last.tokens = 1

FallbackOrgId == "e7ffb47c-d0d5-4ec0-995a-6025cc83b2c4"

\* The organizations an index can be kept for: the tenants and "default".
OrgIds == Tenants \cup {"default"}

\* get_or_create_default_organization, up to its first await: the result of
\* select(Organization).limit(1).  A row found is returned; with none the
\* handler goes on to insert "default", and other handlers run meanwhile.
get_or_create_default_organization_select(r, p, title, content_md) ==
    /\ rest[r].op = "none"
    /\ ~ProcBusy(p)
    /\ IF orgs # {}
       THEN \E o \in orgs :
               rest' = [rest EXCEPT ![r] =
                   [Begin(r, "create", p, "", None) EXCEPT
                       !.pc = "insert", !.org_id = o,
                       !.modified = Note(o, title, content_md, 1, FALSE)]]
       ELSE rest' = [rest EXCEPT ![r] =
                   [Begin(r, "create", p, "", None) EXCEPT
                       !.pc = "org_insert",
                       !.modified = Note(None, title, content_md, 1, FALSE)]]
    /\ UNCHANGED <<managerVars, threadVars, gate, quotaVars, orgs, notes, wsVars, indexVars, commit_log>>

\* get_or_create_default_organization: db.add(org), commit, refresh.  org_id
\* is the primary key: the commit of a second "default" row raises
\* IntegrityError, and the except branch returns the fallback id.
get_or_create_default_organization_commit(r) ==
    LET org_id == IF "default" \in orgs THEN FallbackOrgId ELSE "default" IN
    /\ rest[r].op = "create" /\ rest[r].pc = "org_insert"
    /\ ~ProcBusy(rest[r].proc)
    /\ orgs' = orgs \cup {"default"}
    /\ rest' = [rest EXCEPT ![r] =
            [@ EXCEPT !.pc = "insert", !.org_id = org_id,
                      !.modified = [@ EXCEPT !.org_id = org_id]]]
    /\ UNCHANGED <<managerVars, threadVars, gate, quotaVars, notes, wsVars, indexVars, commit_log>>

\* The deployment before its first request: the org table is empty.
InitNoOrg ==
    /\ orgs = {}
    /\ notes = <<>>
    /\ ws = [s \in Sessions |-> IdleSession]
    /\ frames = [s \in Sessions |-> <<>>]
    /\ inflight = [s \in Sessions |-> NoMsg]
    /\ rest = [r \in Requests |-> IdleRequest]
    /\ index_registry = [p \in Procs |-> [o \in OrgIds |-> NoIndex]]
    /\ snapshots = [o \in OrgIds |-> NoIndex]
    /\ active_connections = [p \in Procs |-> [n \in NoteIds |-> <<>>]]
    /\ commit_log = <<>>
    /\ clock = 0
    /\ redis = [key \in RedisKeys |-> NoBucket]
    /\ limiter = [c \in Limiters |-> IdleLimiter]
    /\ quota_hist = [drained_at |-> -1, grants |-> 0, calls |-> 0,
                     script_calls |-> 0, last |-> NoScriptCall, ideal |-> NoBucket,
                     denial |-> NoDenial]
    /\ gate = [c \in Callers |-> NoCall]
    /\ threads = [t \in Threads |-> IdleThread]
    /\ index_lock = None
    /\ added = [n \in NoteIds |-> NoVector]
    /\ active_keys = [p \in Procs |-> {}]
    /\ connection_details = [p \in Procs |-> {}]
    /\ pubsub = [s \in Sessions |-> NoPubSub]

\* POST /v1/notes by the two callers, one request each, on either process.
NextFirstOrg ==
    \/ \E r \in Callers, p \in Procs, content_md \in {"a", "b"} :
          get_or_create_default_organization_select(r, p, "a", content_md)
    \/ \E r \in Callers : get_or_create_default_organization_commit(r)
    \/ \E r \in Callers, n \in NoteIds : create_note_commit(r, n)
    \/ \E r \in Callers : create_note_commit_refused(r)
    \/ \E r \in Callers : create_note_index(r)

SpecFirstOrg == InitNoOrg /\ [][NextFirstOrg]_vars

\* get_or_create_default_organization has returned to the handler of r.
OrgReturned(r) == rest[r].op = "create" /\ rest[r].org_id # None

\* C40: the calls to get_or_create_default_organization made while no
\* organization existed all return one id, that id names a row of the org
\* table, and every note created belongs to that organization.
C40_OneExistingDefaultOrg ==
    /\ \A r \in Requests, q \in Requests :
          (OrgReturned(r) /\ OrgReturned(q)) => rest[r].org_id = rest[q].org_id
    /\ \A r \in Requests : OrgReturned(r) => rest[r].org_id \in orgs
    /\ \A n \in DOMAIN notes, r \in Requests :
          OrgReturned(r) => notes[n].org_id = rest[r].org_id

\* The notes that are stored belong to one organization, and its row exists.
NotesOfOneExistingOrg ==
    /\ \A n \in DOMAIN notes : notes[n].org_id \in orgs
    /\ \A n \in DOMAIN notes, m \in DOMAIN notes : notes[n].org_id = notes[m].org_id

\* Both requests found no organization; one was handed "default", the other
\* the fallback id, and its note was refused.
FallbackReturned ==
    /\ rest["r1"].org_id = "default" /\ rest["r1"].status = 201
    /\ rest["r2"].org_id = FallbackOrgId /\ rest["r2"].status = 500
    /\ FallbackOrgId \notin orgs
    /\ DOMAIN notes = {"n1"}


====
